---- MODULE Spec2Model ----
(***************************************************************************)
(* Model of the RAG indexing and search engine of rag_system.py:           *)
(* ProjectFileProcessor (chunker), VectorStore (FAISS inner-product index   *)
(* plus chunk list, save/load to a .faiss/.pkl artifact pair) and           *)
(* ProjectRAG (per-key cache of VectorStores over a storage directory).     *)
(*                                                                         *)
(* A text is the sequence of its lines (content.split('\n')); the empty     *)
(* string is the one-line text <<"">>.  Lines are drawn from a small        *)
(* alphabet.  The sentence embedder and the FAISS index are external: the   *)
(* embedder is a fixed function from texts to unit vectors that may raise,  *)
(* and IndexFlatIP.search returns some k best positions by descending       *)
(* inner product, the order among equal scores being left open.             *)
(***************************************************************************)
EXTENDS FiniteSets, Integers, Sequences, TLC

VARIABLES disk, vector_stores, last, vs, vsdisk, calls, chunked, other_stores,
          session

vars == <<disk, vector_stores, last, vs, vsdisk, calls, chunked, other_stores,
          session>>

(***************************************************************************)
(* Bounds                                                                  *)
(***************************************************************************)
\* largest number of chunks (and of vectors) one index may grow to
MaxChunks == 2
\* largest k passed to a search
MaxK == 2
\* largest number of lines of a text put together from the line alphabets
MaxLines == 3

(***************************************************************************)
(* Generic helpers                                                         *)
(***************************************************************************)
Min(a, b) == IF a < b THEN a ELSE b

Range(s) == {s[i] : i \in 1..Len(s)}

RECURSIVE SumSeq(_)
SumSeq(s) == IF s = <<>> THEN 0 ELSE s[1] + SumSeq(Tail(s))

\* injective sequences of length n over the set S
RECURSIVE InjSeqs(_, _)
InjSeqs(S, n) ==
    IF n = 0 THEN {<<>>}
    ELSE UNION {{Append(s, x) : x \in S \ Range(s)} : s \in InjSeqs(S, n - 1)}

(***************************************************************************)
(* Identifiers and texts                                                   *)
(***************************************************************************)
\* user ids and project ids are free-form strings chosen by the caller; Keys
\* are the (user_id, project_id) pairs the calls are made with
Keys == {<<"a", "b_c">>, <<"a_b", "c">>}

\* the pair used where one project is looked at on its own
OneKey == {<<"a", "b_c">>}

\* store_key = f"{user_id}_{project_id}"
StoreKey(user_id, project_id) == user_id \o "_" \o project_id

StoreKeys == {StoreKey(key[1], key[2]) : key \in Keys}

\* The lines texts are made of.  String tests and conversions on lines are
\* tables over these lines.
PyLines == {"", "import os", "class A:", "def foo():", "    return 1", "hello"}
JsLines ==
    {"", "import x from 'y';", "const fs = require('fs');", "class B {",
     "function f() {", "const g = () => 1;", "const x = 1;", "  return 1;"}
MdLines == {"", "# Title", "## Sub", "text", "  text "}

\* line.lstrip() and line.rstrip()
LStrip(line) ==
    CASE line = "    return 1" -> "return 1"
      [] line = "  return 1;" -> "return 1;"
      [] line = "  text " -> "text "
      [] OTHER -> line

RStrip(line) ==
    CASE line = "  text " -> "  text"
      [] line = "text " -> "text"
      [] OTHER -> line

\* line.strip()
Strip(line) == RStrip(LStrip(line))

\* stripped.startswith(('import ', 'from '))
StartsWithImport(stripped) == stripped \in {"import os", "import x from 'y';"}
\* stripped.startswith('class ')
StartsWithClass(stripped) == stripped \in {"class A:", "class B {"}
\* stripped.startswith('def ')
StartsWithDef(stripped) == stripped \in {"def foo():"}

\* stripped.startswith(('import ', 'require(', 'const ', 'let ', 'var ')) and
\* ('require(' in stripped or 'import' in stripped)
JsImport(stripped) ==
    stripped \in {"import os", "import x from 'y';", "const fs = require('fs');"}
\* stripped.startswith('class ') or 'class ' in stripped
JsClass(stripped) == stripped \in {"class A:", "class B {"}
\* stripped.startswith(('function ', 'const ')) and
\* ('=' in stripped and '=>' in stripped or 'function' in stripped)
JsFunction(stripped) == stripped \in {"function f() {", "const g = () => 1;"}

\* a line of a Markdown text that begins with '#'
StartsWithHash(line) == line \in {"# Title", "## Sub"}

\* os.path.splitext(filename)[1].lower()
FileExt(filename) ==
    CASE filename \in {"a.py", "m.py"} -> ".py"
      [] filename \in {"s.js"} -> ".js"
      [] filename \in {"t.ts"} -> ".ts"
      [] filename \in {"r.md"} -> ".md"
      [] filename \in {"d.json"} -> ".json"
      [] filename \in {"b.txt", "c.txt"} -> ".txt"
      [] OTHER -> ""

\* self.supported_extensions.get(file_ext, 'unknown')
supported_extensions(file_ext) ==
    CASE file_ext = ".py" -> "python"
      [] file_ext = ".js" -> "javascript"
      [] file_ext = ".ts" -> "typescript"
      [] file_ext = ".java" -> "java"
      [] file_ext = ".cpp" -> "cpp"
      [] file_ext = ".c" -> "c"
      [] file_ext = ".rb" -> "ruby"
      [] file_ext = ".go" -> "go"
      [] file_ext = ".rs" -> "rust"
      [] file_ext = ".php" -> "php"
      [] file_ext = ".md" -> "markdown"
      [] file_ext = ".txt" -> "text"
      [] file_ext = ".json" -> "json"
      [] file_ext \in {".yaml", ".yml"} -> "yaml"
      [] file_ext = ".xml" -> "xml"
      [] file_ext = ".html" -> "html"
      [] file_ext = ".css" -> "css"
      [] file_ext = ".sql" -> "sql"
      [] file_ext = ".sh" -> "shell"
      [] file_ext = ".dockerfile" -> "docker"
      [] file_ext \in {".gitignore", ".env"} -> "config"
      [] OTHER -> "unknown"

(***************************************************************************)
(* DocumentChunk and ProjectFileProcessor                                  *)
(***************************************************************************)
\* the embedding of a chunk that has not been added to a store yet (None)
NoEmbedding == <<>>

\* metadata key that a strategy does not set: a line number or section
\* index, and the 'key' of a JSON chunk (<<k>> when it is set)
NoLine == -1
NoKey == <<>>

\* _create_chunk: content is the list of joined lines; created_at is a wall
\* clock reading that nothing reads back and is left out; chunk_id hashes
\* (user_id, project_id, filename, content[:100]) and texts here are shorter
\* than 100 characters
_create_chunk(content, filename, user_id, project_id, type, start_line, end_line) ==
    [content |-> content,
     chunk_id |-> <<user_id, project_id, filename, content>>,
     filename |-> filename,
     user_id |-> user_id,
     project_id |-> project_id,
     type |-> type,
     start_line |-> start_line,
     end_line |-> end_line,
     section_index |-> NoLine,
     key |-> NoKey,
     embedding |-> NoEmbedding]

\* chunk_size = 100  (lines per chunk)
chunk_size == 100
\* len(current_chunk) > 50
max_chunk_lines == 50

\* for i in range(0, len(lines), chunk_size): i is the 0-based window start
RECURSIVE GenericFrom(_, _, _, _, _, _)
GenericFrom(lines, i, filename, user_id, project_id, file_type) ==
    IF i >= Len(lines) THEN <<>>
    ELSE LET chunk_lines == SubSeq(lines, i + 1, Min(i + chunk_size, Len(lines)))
         IN  <<_create_chunk(chunk_lines, filename, user_id, project_id,
                             file_type, i + 1, i + Len(chunk_lines))>>
             \o GenericFrom(lines, i + chunk_size, filename, user_id,
                            project_id, file_type)

_chunk_generic_file(filename, content, user_id, project_id, file_type) ==
    GenericFrom(content, 0, filename, user_id, project_id, file_type)

\* one iteration of the for loop of _chunk_python_file over line i (0-based);
\* st = [chunks, current_chunk, current_type]
PyFlush(st, i, filename, user_id, project_id) ==
    Append(st.chunks,
           _create_chunk(st.current_chunk, filename, user_id, project_id,
                         st.current_type, i - Len(st.current_chunk) + 1, NoLine))

PyStep_DefCloses(st, i, line, filename, user_id, project_id) ==
    LET stripped == Strip(line)
        flushed == PyFlush(st, i, filename, user_id, project_id)
    IN  IF StartsWithImport(stripped) THEN
            IF st.current_chunk # <<>> /\ st.current_type # "imports"
            THEN [chunks |-> flushed, current_chunk |-> <<line>>,
                  current_type |-> "imports"]
            ELSE [st EXCEPT !.current_chunk = Append(@, line),
                            !.current_type = "imports"]
        ELSE IF StartsWithClass(stripped) \/ StartsWithDef(stripped) THEN
            IF st.current_chunk # <<>>
            THEN [chunks |-> flushed, current_chunk |-> <<line>>,
                  current_type |-> IF StartsWithClass(stripped)
                                   THEN "class" ELSE "function"]
            ELSE [st EXCEPT !.current_chunk = Append(@, line),
                            !.current_type = IF StartsWithClass(stripped)
                                             THEN "class" ELSE "function"]
        ELSE
            LET st1 == [st EXCEPT !.current_chunk = Append(@, line)]
            IN  IF Len(st1.current_chunk) > max_chunk_lines
                THEN [chunks |-> PyFlush(st1, i, filename, user_id, project_id),
                      current_chunk |-> <<>>,
                      current_type |-> "general"]
                ELSE st1

PyStep(st, i, line, filename, user_id, project_id) ==
    LET stripped == Strip(line)
        flushed == PyFlush(st, i, filename, user_id, project_id)
    IN  IF StartsWithImport(stripped) THEN
            IF st.current_chunk # <<>> /\ st.current_type # "imports"
            THEN [chunks |-> flushed, current_chunk |-> <<line>>,
                  current_type |-> "imports"]
            ELSE [st EXCEPT !.current_chunk = Append(@, line),
                            !.current_type = "imports"]
        ELSE IF StartsWithClass(stripped) THEN
            IF st.current_chunk # <<>>
            THEN [chunks |-> flushed, current_chunk |-> <<line>>,
                  current_type |-> "class"]
            ELSE [st EXCEPT !.current_chunk = Append(@, line),
                            !.current_type = "class"]
        ELSE IF StartsWithDef(stripped) THEN
            IF st.current_chunk # <<>> /\ st.current_type # "class"
            THEN [chunks |-> flushed, current_chunk |-> <<line>>,
                  current_type |-> "function"]
            ELSE [st EXCEPT !.current_chunk = Append(@, line),
                            !.current_type = "function"]
        ELSE
            LET st1 == [st EXCEPT !.current_chunk = Append(@, line)]
            IN  IF Len(st1.current_chunk) > max_chunk_lines
                THEN [chunks |-> PyFlush(st1, i, filename, user_id, project_id),
                      current_chunk |-> <<>>,
                      current_type |-> "general"]
                ELSE st1

\* for i, line in enumerate(lines): the iterations i .. stop - 1 (PyLoop) and
\* all of them, taken RunLength at a time (PyRuns).  Each iteration is worked
\* out before the next one starts: the test on next does that and is always
\* true.
RunLength == 10

RECURSIVE PyLoop(_, _, _, _, _, _, _)
PyLoop(st, i, stop, lines, filename, user_id, project_id) ==
    IF i >= stop THEN st
    ELSE LET next == PyStep(st, i, lines[i + 1], filename, user_id, project_id)
         IN  IF DOMAIN next = DOMAIN st
             THEN PyLoop(next, i + 1, stop, lines, filename, user_id, project_id)
             ELSE next

RECURSIVE PyRuns(_, _, _, _, _, _)
PyRuns(st, i, lines, filename, user_id, project_id) ==
    IF i >= Len(lines) THEN st
    ELSE LET next == PyLoop(st, i, Min(i + RunLength, Len(lines)), lines,
                            filename, user_id, project_id)
         IN  IF DOMAIN next = DOMAIN st
             THEN PyRuns(next, i + RunLength, lines, filename, user_id, project_id)
             ELSE next

_chunk_python_file(filename, content, user_id, project_id) ==
    LET st == PyRuns([chunks |-> <<>>, current_chunk |-> <<>>,
                      current_type |-> "general"],
                     0, content, filename, user_id, project_id)
    IN  IF st.current_chunk # <<>>
        THEN Append(st.chunks,
                    _create_chunk(st.current_chunk, filename, user_id, project_id,
                                  st.current_type,
                                  Len(content) - Len(st.current_chunk) + 1, NoLine))
        ELSE st.chunks

\* one iteration of the for loop of _chunk_js_file over line i (0-based)
JsStep(st, i, line, filename, user_id, project_id) ==
    LET stripped == Strip(line)
        flushed == PyFlush(st, i, filename, user_id, project_id)
    IN  IF JsImport(stripped) THEN
            IF st.current_chunk # <<>> /\ st.current_type # "imports"
            THEN [chunks |-> flushed, current_chunk |-> <<line>>,
                  current_type |-> "imports"]
            ELSE [st EXCEPT !.current_chunk = Append(@, line),
                            !.current_type = "imports"]
        ELSE IF JsClass(stripped) THEN
            IF st.current_chunk # <<>>
            THEN [chunks |-> flushed, current_chunk |-> <<line>>,
                  current_type |-> "class"]
            ELSE [st EXCEPT !.current_chunk = Append(@, line),
                            !.current_type = "class"]
        ELSE IF JsFunction(stripped) THEN
            IF st.current_chunk # <<>> /\ st.current_type # "class"
            THEN [chunks |-> flushed, current_chunk |-> <<line>>,
                  current_type |-> "function"]
            ELSE [st EXCEPT !.current_chunk = Append(@, line),
                            !.current_type = "function"]
        ELSE
            LET st1 == [st EXCEPT !.current_chunk = Append(@, line)]
            IN  IF Len(st1.current_chunk) > max_chunk_lines
                THEN [chunks |-> PyFlush(st1, i, filename, user_id, project_id),
                      current_chunk |-> <<>>,
                      current_type |-> "general"]
                ELSE st1

RECURSIVE JsLoop(_, _, _, _, _, _, _)
JsLoop(st, i, stop, lines, filename, user_id, project_id) ==
    IF i >= stop THEN st
    ELSE LET next == JsStep(st, i, lines[i + 1], filename, user_id, project_id)
         IN  IF DOMAIN next = DOMAIN st
             THEN JsLoop(next, i + 1, stop, lines, filename, user_id, project_id)
             ELSE next

RECURSIVE JsRuns(_, _, _, _, _, _)
JsRuns(st, i, lines, filename, user_id, project_id) ==
    IF i >= Len(lines) THEN st
    ELSE LET next == JsLoop(st, i, Min(i + RunLength, Len(lines)), lines,
                            filename, user_id, project_id)
         IN  IF DOMAIN next = DOMAIN st
             THEN JsRuns(next, i + RunLength, lines, filename, user_id, project_id)
             ELSE next

_chunk_js_file(filename, content, user_id, project_id) ==
    LET st == JsRuns([chunks |-> <<>>, current_chunk |-> <<>>,
                      current_type |-> "general"],
                     0, content, filename, user_id, project_id)
    IN  IF st.current_chunk # <<>>
        THEN Append(st.chunks,
                    _create_chunk(st.current_chunk, filename, user_id, project_id,
                                  st.current_type,
                                  Len(content) - Len(st.current_chunk) + 1, NoLine))
        ELSE st.chunks

\* content.split('\n#') with '#' put back in front of every piece but the
\* first: a new section starts at every line after the first that begins
\* with '#'
RECURSIVE MdSections(_, _)
MdSections(sections, lines) ==
    IF lines = <<>> THEN sections
    ELSE IF StartsWithHash(Head(lines))
    THEN MdSections(Append(sections, <<Head(lines)>>), Tail(lines))
    ELSE MdSections([sections EXCEPT ![Len(sections)] = Append(@, Head(lines))],
                    Tail(lines))

\* text.lstrip() and text.rstrip() of a text of several lines; <<>> is ""
RECURSIVE LStripText(_)
LStripText(lines) ==
    IF lines = <<>> THEN <<>>
    ELSE IF Strip(Head(lines)) = "" THEN LStripText(Tail(lines))
    ELSE <<LStrip(Head(lines))>> \o Tail(lines)

RECURSIVE RStripText(_)
RStripText(lines) ==
    IF lines = <<>> THEN <<>>
    ELSE IF Strip(lines[Len(lines)]) = ""
    THEN RStripText(SubSeq(lines, 1, Len(lines) - 1))
    ELSE SubSeq(lines, 1, Len(lines) - 1) \o <<RStrip(lines[Len(lines)])>>

\* section.strip()
StripText(lines) == RStripText(LStripText(lines))

\* the for loop of _chunk_markdown_file from section i (0-based) on
RECURSIVE MdFrom(_, _, _, _, _)
MdFrom(sections, i, filename, user_id, project_id) ==
    IF i >= Len(sections) THEN <<>>
    ELSE LET section == StripText(sections[i + 1])
             rest == MdFrom(sections, i + 1, filename, user_id, project_id)
         IN  IF section # <<>>
             THEN <<[_create_chunk(section, filename, user_id, project_id,
                                   "markdown_section", NoLine, NoLine)
                        EXCEPT !.section_index = i]>> \o rest
             ELSE rest

_chunk_markdown_file(filename, content, user_id, project_id) ==
    MdFrom(MdSections(<<<<Head(content)>>>>, Tail(content)), 0,
           filename, user_id, project_id)

\* ten times the string s
Ten(s) == s \o s \o s \o s \o s \o s \o s \o s \o s \o s

\* sys.getrecursionlimit() of the interpreter, which json.loads counts its
\* nesting against
recursion_limit == 1000

\* a document of recursion_limit arrays nested in one another: well-formed
\* JSON whose root is an array
DeepJson == <<Ten(Ten(Ten("["))) \o Ten(Ten(Ten("]")))>>

\* the JSON texts handed to the chunker
JsonTexts ==
    {<<"">>, <<"hello">>, <<"{\"a\": 1">>, DeepJson,
     <<"null">>, <<"[1, 2]">>,
     <<"{}">>, <<"{\"a\": 1}">>, <<"{\"a\": 1, \"b\": [1, 2]}">>,
     <<"{\"a\": 1, \"a\": 2}">>, <<"{\"\": {}}">>,
     <<"{", "  \"a\": \"\"", "}">>}

\* one item of a parsed object: the key and the lines of
\* json.dumps(value, indent=2)
JsonItem(key, dumped) == [key |-> key, dumped |-> dumped]

\* json.loads(content) on JsonTexts: kind is "error" for a JSONDecodeError,
\* "dict" for an object, whose items follow in data.items() order (of a
\* repeated key the last value is kept), "other" for any other value, and
\* "raise" for the RecursionError of the decoder on DeepJson
json_loads(content) ==
    CASE content = DeepJson -> [kind |-> "raise", items |-> <<>>]
      [] content \in {<<"">>, <<"hello">>, <<"{\"a\": 1">>} ->
            [kind |-> "error", items |-> <<>>]
      [] content \in {<<"null">>, <<"[1, 2]">>} ->
            [kind |-> "other", items |-> <<>>]
      [] content = <<"{}">> ->
            [kind |-> "dict", items |-> <<>>]
      [] content = <<"{\"a\": 1}">> ->
            [kind |-> "dict", items |-> <<JsonItem("a", <<"1">>)>>]
      [] content = <<"{\"a\": 1, \"b\": [1, 2]}">> ->
            [kind |-> "dict",
             items |-> <<JsonItem("a", <<"1">>),
                         JsonItem("b", <<"[", "  1,", "  2", "]">>)>>]
      [] content = <<"{\"a\": 1, \"a\": 2}">> ->
            [kind |-> "dict", items |-> <<JsonItem("a", <<"2">>)>>]
      [] content = <<"{\"\": {}}">> ->
            [kind |-> "dict", items |-> <<JsonItem("", <<"{}">>)>>]
      [] content = <<"{", "  \"a\": \"\"", "}">> ->
            [kind |-> "dict", items |-> <<JsonItem("a", <<"\"\"">>)>>]
      [] OTHER -> [kind |-> "error", items |-> <<>>]

\* f"Key: {key}\nValue: {json.dumps(value, indent=2)}" as lines
JsonChunkContent(item) ==
    <<"Key: " \o item.key, "Value: " \o Head(item.dumped)>> \o Tail(item.dumped)

_chunk_json_file(filename, content, user_id, project_id) ==
    LET data == json_loads(content)
    IN  IF data.kind = "dict"
        THEN [i \in 1..Len(data.items) |->
                [_create_chunk(JsonChunkContent(data.items[i]), filename,
                               user_id, project_id, "json_key", NoLine, NoLine)
                    EXCEPT !.key = <<data.items[i].key>>]]
        ELSE IF data.kind = "other"
        THEN <<_create_chunk(content, filename, user_id, project_id,
                             "json_content", NoLine, NoLine)>>
        ELSE IF data.kind = "error"
        THEN <<_create_chunk(content, filename, user_id, project_id,
                             "invalid_json", NoLine, NoLine)>>
        ELSE <<>>    \* nothing is returned: the exception propagates

\* _chunk_json_file catches json.JSONDecodeError only: any other exception
\* of json.loads leaves _chunk_file, process_files and index_project
ChunkRaises(filename, content) ==
    /\ supported_extensions(FileExt(filename)) = "json"
    /\ json_loads(content).kind = "raise"

\* dispatch on the file type
_chunk_file(filename, content, user_id, project_id) ==
    LET file_type == supported_extensions(FileExt(filename))
    IN  IF file_type = "python"
        THEN _chunk_python_file(filename, content, user_id, project_id)
        ELSE IF file_type \in {"javascript", "typescript"}
        THEN _chunk_js_file(filename, content, user_id, project_id)
        ELSE IF file_type = "markdown"
        THEN _chunk_markdown_file(filename, content, user_id, project_id)
        ELSE IF file_type = "json"
        THEN _chunk_json_file(filename, content, user_id, project_id)
        ELSE _chunk_generic_file(filename, content, user_id, project_id, file_type)

\* files_content is an ordered dict: a sequence of <<filename, content>>
RECURSIVE process_files(_, _, _)
process_files(files_content, user_id, project_id) ==
    IF files_content = <<>> THEN <<>>
    ELSE _chunk_file(files_content[1][1], files_content[1][2], user_id, project_id)
         \o process_files(Tail(files_content), user_id, project_id)

(***************************************************************************)
(* Embedder (SentenceTransformer.encode with normalize_embeddings=True)     *)
(***************************************************************************)
\* the unit vectors of the embedding space
UnitVecs == << <<1, 0>>, <<0, 1>>, <<-1, 0>>, <<0, -1>> >>

\* self.model.get_sentence_embedding_dimension()
ModelDimension == Len(UnitVecs[1])

LineCode(line) ==
    CASE line = "" -> 0
      [] line = "import os" -> 1
      [] line = "class A:" -> 2
      [] line = "def foo():" -> 3
      [] line = "    return 1" -> 1
      [] line = "hello" -> 2
      [] OTHER -> 0

\* the embedding of a text: a fixed function of the text, always a unit vector
Embed(text) ==
    UnitVecs[(SumSeq([i \in 1..Len(text) |-> LineCode(text[i])]) % Len(UnitVecs)) + 1]

\* inner product
IP(a, b) == SumSeq([i \in 1..Len(a) |-> a[i] * b[i]])

(***************************************************************************)
(* faiss.IndexFlatIP: a sequence of vectors in insertion order              *)
(***************************************************************************)
\* index.search(query_embedding, k) for 1 <= k <= ntotal: the sequences of k
\* distinct positions (1-based) in non-increasing score order that leave no
\* better vector out; which of several equal-score vectors come first is
\* not fixed by the library's contract
FaissSearch(index, qv, k) ==
    {s \in InjSeqs(1..Len(index), k) :
        /\ \A i \in 1..(k - 1) : IP(qv, index[s[i]]) >= IP(qv, index[s[i + 1]])
        /\ \A m \in (1..Len(index)) \ Range(s) :
               \A i \in 1..k : IP(qv, index[m]) <= IP(qv, index[s[i]])}

(***************************************************************************)
(* VectorStore                                                             *)
(***************************************************************************)
\* VectorStore.__init__; metadata_store (chunk_id -> chunk) is written next to
\* chunks by add_chunks/save/load and never read, and is left out
NewVectorStore == [index |-> <<>>, chunks |-> <<>>, dimension |-> ModelDimension]

\* the loop "for chunk, embedding in zip(chunks, embeddings_float32)"
WithEmbeddings(chunks) ==
    [i \in 1..Len(chunks) |-> [chunks[i] EXCEPT !.embedding = Embed(chunks[i].content)]]

\* add_chunks that puts the new chunks in front of the old ones
add_chunks_Prepend(store, chunks) ==
    IF chunks = <<>> THEN store
    ELSE [store EXCEPT
            !.index = [i \in 1..Len(chunks) |-> Embed(chunks[i].content)] \o @,
            !.chunks = WithEmbeddings(chunks) \o @]

\* add_chunks when the encode call succeeds
add_chunks(store, chunks) ==
    IF chunks = <<>> THEN store
    ELSE [store EXCEPT
            !.index = @ \o [i \in 1..Len(chunks) |-> Embed(chunks[i].content)],
            !.chunks = @ \o WithEmbeddings(chunks)]

\* a Python value compared by != : values of different types are unequal
PyStr(s) == [kind |-> "str", v |-> s]
PyInt(n) == [kind |-> "int", v |-> n]
PyList(l) == [kind |-> "list", v |-> l]
PyNe(a, b) == IF a.kind # b.kind THEN TRUE ELSE a.v # b.v

\* the keys of chunk.metadata (created_at and content_length are not filtered on)
MetaKeys(chunk) ==
    {"filename", "user_id", "project_id", "type"}
        \cup (IF chunk.start_line # NoLine THEN {"start_line"} ELSE {})
        \cup (IF chunk.end_line # NoLine THEN {"end_line"} ELSE {})
        \cup (IF chunk.section_index # NoLine THEN {"section_index"} ELSE {})
        \cup (IF chunk.key # NoKey THEN {"key"} ELSE {})

\* chunk.metadata[key]
Metadata(chunk, key) ==
    CASE key = "filename" -> PyStr(chunk.filename)
      [] key = "user_id" -> PyStr(chunk.user_id)
      [] key = "project_id" -> PyStr(chunk.project_id)
      [] key = "type" -> PyStr(chunk.type)
      [] key = "start_line" -> PyInt(chunk.start_line)
      [] key = "end_line" -> PyInt(chunk.end_line)
      [] key = "section_index" -> PyInt(chunk.section_index)
      [] key = "key" -> PyStr(chunk.key[1])

\* filters is a dict: a function from metadata keys to Python values
_matches_filters(chunk, filters) ==
    \A key \in DOMAIN filters :
        /\ key \in MetaKeys(chunk)
        /\ ~PyNe(Metadata(chunk, key), filters[key])

NoFilters == [key \in {} |-> PyStr("")]

\* a 0-based rank
ResultRank_ZeroBased(results, j) == Len(results)

\* rank=len(results) + 1
ResultRank(results, j) == Len(results) + 1

\* a search that ignores its filters
Skipped_Never(chunk, filters) == FALSE

\* "if filters and not self._matches_filters(chunk, filters): continue"
Skipped(chunk, filters) == DOMAIN filters # {} /\ ~_matches_filters(chunk, filters)

\* the loop "for score, idx in zip(scores[0], indices[0])" from candidate j on
RECURSIVE SearchLoop(_, _, _, _, _, _, _)
SearchLoop(store, qv, cand, j, results, k, filters) ==
    IF j > Len(cand) THEN results
    ELSE IF cand[j] <= Len(store.chunks)
         THEN LET chunk == store.chunks[cand[j]]
              IN  IF Skipped(chunk, filters)
                  THEN SearchLoop(store, qv, cand, j + 1, results, k, filters)
                  ELSE LET r2 == Append(results,
                                   [chunk |-> chunk,
                                    similarity_score |-> IP(qv, store.index[cand[j]]),
                                    rank |-> ResultRank(results, j)])
                       IN  IF Len(r2) >= k THEN r2
                           ELSE SearchLoop(store, qv, cand, j + 1, r2, k, filters)
         ELSE SearchLoop(store, qv, cand, j + 1, results, k, filters)

\* k_search = min(k, self.index.ntotal)
k_search(store, k) == Min(k, Len(store.index))

\* the candidate lists FAISS may return for a search on a non-empty index
Candidates(store, query, k) ==
    FaissSearch(store.index, Embed(<<query>>), k_search(store, k))

\* VectorStore.search after the encode call succeeded, for the candidate list
\* cand returned by FAISS
search(store, query, k, filters, cand) ==
    SearchLoop(store, Embed(<<query>>), cand, 1, <<>>, k, filters)

\* persisted artifacts: st is "absent", "corrupt" (cut short by a failed
\* write) or "ok"
AbsentFaiss == [st |-> "absent", index |-> <<>>]
CorruptFaiss == [st |-> "corrupt", index |-> <<>>]
AbsentPkl == [st |-> "absent", chunks |-> <<>>, dimension |-> 0]
CorruptPkl == [st |-> "corrupt", chunks |-> <<>>, dimension |-> 0]
NoArtifacts == [faiss |-> AbsentFaiss, pkl |-> AbsentPkl]

\* os.path.exists
Exists(art) == art.st # "absent"

\* the places where a call can raise
FailPoints == {"none", "encode", "faiss_open", "faiss_write", "pkl_open", "pkl_write"}

\* faiss.write_index(self.index, f"{filepath}.faiss")
WriteFaiss(store) == [st |-> "ok", index |-> store.index]

\* a pickle that leaves the chunk list out
WritePkl_NoChunks(store) ==
    [st |-> "ok", chunks |-> <<>>, dimension |-> store.dimension]

\* pickle.dump({'chunks': ..., 'metadata_store': ..., 'dimension': ...}, f)
WritePkl(store) ==
    [st |-> "ok", chunks |-> store.chunks, dimension |-> store.dimension]

\* VectorStore.save onto the artifact pair d; fail names the step that
\* raises: opening or writing the .faiss file, then opening or writing the
\* .pkl file (open(..., 'wb') truncates before pickle.dump writes)
save(store, d, fail) ==
    CASE fail = "faiss_open" -> [raised |-> TRUE, d |-> d]
      [] fail = "faiss_write" ->
            [raised |-> TRUE, d |-> [d EXCEPT !.faiss = CorruptFaiss]]
      [] fail = "pkl_open" ->
            [raised |-> TRUE, d |-> [d EXCEPT !.faiss = WriteFaiss(store)]]
      [] fail = "pkl_write" ->
            [raised |-> TRUE,
             d |-> [faiss |-> WriteFaiss(store), pkl |-> CorruptPkl]]
      [] OTHER ->
            [raised |-> FALSE,
             d |-> [faiss |-> WriteFaiss(store), pkl |-> WritePkl(store)]]

\* the guard of load: both artifacts exist
LoadGuard(d) == Exists(d.faiss) /\ Exists(d.pkl)

\* VectorStore.load from the artifact pair d: faiss.read_index or
\* pickle.load raises on a file that was cut short; self.index is assigned
\* before the .pkl file is opened
load(store, d) ==
    IF LoadGuard(d)
    THEN IF d.faiss.st = "corrupt"
         THEN [raised |-> TRUE, store |-> store]
         ELSE IF d.pkl.st = "corrupt"
         THEN [raised |-> TRUE, store |-> [store EXCEPT !.index = d.faiss.index]]
         ELSE [raised |-> FALSE,
               store |-> [index |-> d.faiss.index,
                          chunks |-> d.pkl.chunks,
                          dimension |-> d.pkl.dimension]]
    ELSE [raised |-> FALSE, store |-> store]

(***************************************************************************)
(* Inputs                                                                  *)
(***************************************************************************)
\* file contents
PyText == <<"import os", "def foo():">>
TxtText == <<"hello">>

\* the file maps handed to index_project ({} included)
FileMaps ==
    {<<>>,
     << <<"a.py", PyText>> >>,
     << <<"b.txt", TxtText>> >>}

\* query strings
Queries == {"def foo():", "hello"}

\* a line of 1001 characters
X10 == "xxxxxxxxxx"
X100 == X10 \o X10 \o X10 \o X10 \o X10 \o X10 \o X10 \o X10 \o X10 \o X10
X1000 == X100 \o X100 \o X100 \o X100 \o X100 \o X100 \o X100 \o X100 \o X100 \o X100
LongLine == X1000 \o "y"

\* file maps with a chunk longer than what get_relevant_context shows
ContextFileMaps == FileMaps \cup {<< <<"c.txt", <<LongLine>> >> >>}

\* file_types argument of search_project: None or a list of type names
PyNone == [kind |-> "none", v |-> <<>>]
FileTypeArgs ==
    {PyNone, PyList(<<>>), PyList(<<"text", "function">>)}

\* filters argument of VectorStore.search
FilterArgs ==
    {NoFilters,
     [key \in {"type"} |-> PyStr("function")],
     [key \in {"type"} |-> PyStr("text")],
     [key \in {"filename"} |-> PyStr("a.py")],
     [key \in {"type", "filename"} |->
         IF key = "type" THEN PyStr("imports") ELSE PyStr("a.py")],
     [key \in {"end_line"} |-> PyInt(1)],
     [key \in {"type"} |-> PyList(<<"function">>)]}

(***************************************************************************)
(* ProjectRAG                                                              *)
(***************************************************************************)
\* the record of the last call: its arguments, whether it returned or
\* raised, and what it returned
NoSummary ==
    [error |-> "", total_files |-> 0, total_chunks |-> 0, total_lines |-> 0,
     file_types |-> [t \in {} |-> 0], files |-> {}]

NoCall ==
    [op |-> "init", user_id |-> "", project_id |-> "", outcome |-> "ok",
     fail |-> "none", count |-> 0, chunks |-> <<>>, query |-> "", k |-> 0,
     filters |-> NoFilters, cand |-> <<>>, results |-> <<>>,
     formatted |-> <<>>, context |-> "", summary |-> NoSummary,
     before |-> [cached |-> FALSE, faiss |-> "absent", pkl |-> "absent"]]

\* what the store key of a call had when the call started
Before(stores, d, store_key) ==
    [cached |-> store_key \in DOMAIN stores,
     faiss |-> d[store_key].faiss.st,
     pkl |-> d[store_key].pkl.st]

\* self.vector_stores[store_key] = vector_store
CachePut(stores, store_key, store) ==
    [key \in DOMAIN stores \cup {store_key} |->
        IF key = store_key THEN store ELSE stores[key]]

\* del self.vector_stores[store_key]
CacheDel(stores, store_key) ==
    [key \in DOMAIN stores \ {store_key} |-> stores[key]]

\* index_project that never reads the prior snapshot
IndexLoad_Fresh(d) == [raised |-> FALSE, store |-> NewVectorStore]

\* index_project up to vector_store.load(store_path):
\* "if os.path.exists(f'{store_path}.faiss'): vector_store.load(store_path)"
IndexLoad(d) ==
    IF Exists(d.faiss) THEN load(NewVectorStore, d)
    ELSE [raised |-> FALSE, store |-> NewVectorStore]

\* index_project that writes nothing when there is nothing to add
index_project_SkipEmpty(d, chunks, fail) ==
    LET ld == IndexLoad(d)
        store2 == add_chunks(ld.store, chunks)
        sv == save(store2, d, fail)
    IN  IF ld.raised
        THEN [outcome |-> "raise", d |-> d, store |-> ld.store]
        ELSE IF chunks = <<>>
        THEN [outcome |-> "ok", d |-> d, store |-> store2]
        ELSE IF fail = "encode"
        THEN [outcome |-> "raise", d |-> d, store |-> ld.store]
        ELSE IF sv.raised
        THEN [outcome |-> "raise", d |-> sv.d, store |-> store2]
        ELSE [outcome |-> "ok", d |-> sv.d, store |-> store2]

\* index_project on the artifact pair d of its store key: the outcome, the
\* artifact pair afterwards, the store that is cached when the call returns
index_project(d, chunks, fail) ==
    LET ld == IndexLoad(d)
        store2 == add_chunks(ld.store, chunks)
        sv == save(store2, d, fail)
    IN  IF ld.raised
        THEN [outcome |-> "raise", d |-> d, store |-> ld.store]
        ELSE IF chunks # <<>> /\ fail = "encode"
        THEN [outcome |-> "raise", d |-> d, store |-> ld.store]
        ELSE IF sv.raised
        THEN [outcome |-> "raise", d |-> sv.d, store |-> store2]
        ELSE [outcome |-> "ok", d |-> sv.d, store |-> store2]

\* index_project that caches its store whether or not the call raised
IndexCache_Always(stores, store_key, r) == CachePut(stores, store_key, r.store)

\* the cache after index_project: "self.vector_stores[store_key] = vector_store"
\* is reached only when nothing raised
IndexCache(stores, store_key, r) ==
    IF r.outcome = "ok" THEN CachePut(stores, store_key, r.store) ELSE stores

\* which failure points a call of index_project can reach
IndexFailReachable(d, chunks, fail) ==
    /\ IndexLoad(d).raised => fail = "none"
    /\ fail = "encode" => chunks # <<>>

\* index_project on stores of at most max chunks
IndexStepUpTo(max, op, user_id, project_id, files_content, fail) ==
    LET store_key == StoreKey(user_id, project_id)
        chunks == process_files(files_content, user_id, project_id)
        r == index_project(disk[store_key], chunks, fail)
    IN  /\ IndexFailReachable(disk[store_key], chunks, fail)
        /\ Len(r.store.chunks) <= max
        /\ Len(r.store.index) <= max
        /\ disk' = [disk EXCEPT ![store_key] = r.d]
        /\ vector_stores' = IndexCache(vector_stores, store_key, r)
        /\ last' = [NoCall EXCEPT !.op = op, !.user_id = user_id,
                                  !.project_id = project_id,
                                  !.before = Before(vector_stores, disk, store_key),
                                  !.outcome = r.outcome,
                                  !.fail = IF IndexLoad(disk[store_key]).raised
                                           THEN "load" ELSE fail,
                                  !.chunks = chunks,
                                  !.count = IF r.outcome = "ok" THEN Len(chunks) ELSE 0]
        /\ UNCHANGED <<vs, vsdisk, calls, chunked, other_stores, session>>

IndexStep(op, user_id, project_id, files_content, fail) ==
    IndexStepUpTo(MaxChunks, op, user_id, project_id, files_content, fail)

IndexProject(user_id, project_id, files_content, fail) ==
    IndexStep("index_project", user_id, project_id, files_content, fail)

\* index_project_files(files_content, user_id, project_id)
IndexProjectFiles(files_content, user_id, project_id, fail) ==
    IndexStep("index_project", user_id, project_id, files_content, fail)

\* search_project that never finds its key in the cache
CacheHit_Never(stores, store_key) == FALSE

\* "if store_key not in self.vector_stores" is false
CacheHit(stores, store_key) == store_key \in DOMAIN stores

\* search_project that caches the fresh store also when nothing is persisted
SearchLoad_CacheFresh(stores, store_key, d) ==
    IF store_key \in DOMAIN stores
    THEN [raised |-> FALSE, hit |-> TRUE, stores |-> stores]
    ELSE LET ld == load(NewVectorStore, d)
         IN  IF ld.raised
             THEN [raised |-> TRUE, hit |-> FALSE, stores |-> stores]
             ELSE [raised |-> FALSE, hit |-> TRUE,
                   stores |-> CachePut(stores, store_key, ld.store)]

\* search_project, "if store_key not in self.vector_stores": what the lazy
\* load does; hit = FALSE is the early "return []"
SearchLoad(stores, store_key, d) ==
    IF CacheHit(stores, store_key)
    THEN [raised |-> FALSE, hit |-> TRUE, stores |-> stores]
    ELSE IF Exists(d.faiss)
         THEN LET ld == load(NewVectorStore, d)
              IN  IF ld.raised
                  THEN [raised |-> TRUE, hit |-> FALSE, stores |-> stores]
                  ELSE [raised |-> FALSE, hit |-> TRUE,
                        stores |-> CachePut(stores, store_key, ld.store)]
         ELSE [raised |-> FALSE, hit |-> FALSE, stores |-> stores]

\* "filters = {}; if file_types is not None: filters['type'] = file_types"
SearchFilters(file_types) ==
    IF file_types.kind # "none" THEN [key \in {"type"} |-> file_types]
    ELSE NoFilters

\* '\n'.join(lines): the Python string of a text
RECURSIVE Join(_)
Join(lines) ==
    IF lines = <<>> THEN ""
    ELSE IF Len(lines) = 1 THEN lines[1]
    ELSE lines[1] \o "\n" \o Join(Tail(lines))

\* chunk.content[:1000]
shown_chars == 1000

\* text[:n]
Prefix(text, n) == SubSeq(text, 1, Min(n, Len(text)))

\* f"{score:.3f}" of the scores unit vectors have
FormatScore(score) ==
    CASE score = 1 -> "1.000"
      [] score = 0 -> "0.000"
      [] score = -1 -> "-1.000"

\* the f-string of one hit in get_relevant_context
context_part(result) ==
    "\nFile: " \o result.chunk.filename
    \o "\nType: " \o result.chunk.type
    \o "\nRelevance Score: " \o FormatScore(result.similarity_score)
    \o "\n\nContent:\n" \o Prefix(Join(result.chunk.content), shown_chars)
    \o "...\n---\n"

\* "\n".join(context_parts); "" when there are no results
RECURSIVE ContextString(_)
ContextString(results) ==
    IF results = <<>> THEN ""
    ELSE IF Len(results) = 1 THEN context_part(results[1])
    ELSE context_part(results[1]) \o "\n" \o ContextString(Tail(results))

\* the flat records search_similar_code returns
Formatted(results) ==
    [i \in 1..Len(results) |->
        [file |-> results[i].chunk.filename,
         content |-> results[i].chunk.content,
         score |-> results[i].similarity_score,
         type |-> results[i].chunk.type]]

SearchStep(op, user_id, project_id, query, k, file_types, fail) ==
    LET store_key == StoreKey(user_id, project_id)
        sl == SearchLoad(vector_stores, store_key, disk[store_key])
        filters == SearchFilters(file_types)
        call == [NoCall EXCEPT !.op = op, !.user_id = user_id,
                               !.project_id = project_id, !.query = query,
                               !.k = k, !.filters = filters,
                               !.before = Before(vector_stores, disk, store_key)]
    IN  /\ vector_stores' = sl.stores
        /\ UNCHANGED <<disk, vs, vsdisk, calls, chunked, other_stores, session>>
        /\ IF sl.raised
           THEN /\ fail = "none"
                /\ last' = [call EXCEPT !.outcome = "raise", !.fail = "load"]
           ELSE IF ~sl.hit \/ Len(sl.stores[store_key].index) = 0
           THEN /\ fail = "none"
                /\ last' = call
           ELSE IF fail = "encode"
           THEN last' = [call EXCEPT !.outcome = "raise", !.fail = "encode"]
           ELSE \E cand \in Candidates(sl.stores[store_key], query, k) :
                   LET results == search(sl.stores[store_key], query, k,
                                         filters, cand)
                   IN  last' = [call EXCEPT
                                  !.cand = cand,
                                  !.results = results,
                                  !.formatted =
                                      IF op = "search_similar_code"
                                      THEN Formatted(results) ELSE <<>>,
                                  !.context =
                                      IF op = "get_relevant_context"
                                      THEN ContextString(results) ELSE ""]

SearchProject(user_id, project_id, query, k, file_types, fail) ==
    SearchStep("search_project", user_id, project_id, query, k, file_types, fail)

\* search_similar_code(query, top_k, user_id, project_id)
SearchSimilarCode(query, top_k, user_id, project_id, fail) ==
    SearchStep("search_similar_code", user_id, project_id, query, top_k, PyNone, fail)

\* get_relevant_context(user_id, project_id, query, max_chunks)
GetRelevantContext(user_id, project_id, query, max_chunks) ==
    SearchStep("get_relevant_context", user_id, project_id, query, max_chunks,
               PyNone, "none")

\* the summary dict of a chunk list (indexed_at is a wall clock reading)
\* a summary that counts a chunk that is in the list twice once
Summary_Distinct(chunks) ==
    LET files == {chunks[i].filename : i \in 1..Len(chunks)}
        types == {chunks[i].type : i \in 1..Len(chunks)}
        distinct == {chunks[i] : i \in 1..Len(chunks)}
    IN  [error |-> "",
         total_files |-> Cardinality(files),
         total_chunks |-> Cardinality(distinct),
         total_lines |-> SumSeq([i \in 1..Len(chunks) |-> Len(chunks[i].content)]),
         file_types |-> [t \in types |->
                            Cardinality({c \in distinct : c.type = t})],
         files |-> files]

Summary(chunks) ==
    LET files == {chunks[i].filename : i \in 1..Len(chunks)}
        types == {chunks[i].type : i \in 1..Len(chunks)}
    IN  [error |-> "",
         total_files |-> Cardinality(files),
         total_chunks |-> Len(chunks),
         total_lines |-> SumSeq([i \in 1..Len(chunks) |-> Len(chunks[i].content)]),
         file_types |-> [t \in types |->
                            Cardinality({i \in 1..Len(chunks) : chunks[i].type = t})],
         files |-> files]

\* {"error": "Project not indexed"}
NotIndexed == [NoSummary EXCEPT !.error = "Project not indexed"]

\* a summary that treats a key without cache entry as an empty project
generate_project_summary_Empty(stores, store_key) ==
    IF store_key \notin DOMAIN stores THEN Summary(<<>>)
    ELSE Summary(stores[store_key].chunks)

generate_project_summary(stores, store_key) ==
    IF store_key \notin DOMAIN stores THEN NotIndexed
    ELSE Summary(stores[store_key].chunks)

GenerateProjectSummary(user_id, project_id) ==
    /\ last' = [NoCall EXCEPT
                  !.op = "generate_project_summary", !.user_id = user_id,
                  !.project_id = project_id,
                  !.before = Before(vector_stores, disk,
                                    StoreKey(user_id, project_id)),
                  !.summary = generate_project_summary(
                                  vector_stores, StoreKey(user_id, project_id))]
    /\ UNCHANGED <<disk, vector_stores, vs, vsdisk, calls, chunked, other_stores, session>>

\* clear_project that removes the numeric index only
RemoveArtifacts_FaissOnly(d) == [d EXCEPT !.faiss = AbsentFaiss]

\* "for ext in ['.faiss', '.pkl']: if os.path.exists(filepath): os.remove(filepath)"
RemoveArtifacts(d) == NoArtifacts

\* clear_project that leaves the cache entry in place
ClearCache_Keep(stores, store_key) == stores

\* "if store_key in self.vector_stores: del self.vector_stores[store_key]"
ClearCache(stores, store_key) == CacheDel(stores, store_key)

ClearProject(user_id, project_id) ==
    LET store_key == StoreKey(user_id, project_id)
    IN  /\ vector_stores' = ClearCache(vector_stores, store_key)
        /\ disk' = [disk EXCEPT ![store_key] = RemoveArtifacts(@)]
        /\ last' = [NoCall EXCEPT !.op = "clear_project", !.user_id = user_id,
                                  !.project_id = project_id,
                                  !.before = Before(vector_stores, disk, store_key)]
        /\ UNCHANGED <<vs, vsdisk, calls, chunked, other_stores, session>>

\* ProjectRAG(): a new instance over the same storage directory replaces the
\* old one (os.makedirs(storage_dir, exist_ok=True) leaves the files alone)
NewProjectRAG ==
    /\ vector_stores' = [key \in {} |-> NewVectorStore]
    /\ last' = [NoCall EXCEPT !.op = "ProjectRAG"]
    /\ UNCHANGED <<disk, vs, vsdisk, calls, chunked, other_stores, session>>

(***************************************************************************)
(* One ProjectRAG over an initially empty storage directory                *)
(***************************************************************************)
\* the threads that call into one ProjectRAG at the same time
Threads == {"t1", "t2"}

\* a thread that is in no call: pc is the position in the method, store the
\* local vector_store, holds says that the cache entry is this thread's
\* object, uses names the thread whose object the call searched
NoThread == "none"
IdleCall ==
    [pc |-> "idle", op |-> "none", chunks |-> <<>>, query |-> "", k |-> 0,
     store |-> NewVectorStore, holds |-> FALSE, uses |-> NoThread,
     results |-> <<>>]

\* the session state of the application before anything is indexed:
\* project_rag says that st.session_state.project_rag holds an instance,
\* indexed, user_id and project_id are those of project_context ({} here)
NoSession ==
    [project_rag |-> FALSE, indexed |-> FALSE, user_id |-> "", project_id |-> ""]

\* no file has been handed to the chunker
NotChunked ==
    [filename |-> "", content |-> <<>>, chunks |-> <<>>, done |-> FALSE,
     raised |-> FALSE]

Init ==
    /\ disk = [key \in StoreKeys |-> NoArtifacts]
    /\ vector_stores = [key \in {} |-> NewVectorStore]
    /\ last = NoCall
    /\ vs = NewVectorStore
    /\ vsdisk = NoArtifacts
    /\ calls = [t \in Threads |-> IdleCall]
    /\ chunked = NotChunked
    /\ other_stores = [key \in {} |-> NewVectorStore]
    /\ session = NoSession

\* the calls made with the pairs K, raising at the points F
NextFor(K, F) ==
    \/ \E key \in K, f \in FileMaps, fail \in F :
           IndexProject(key[1], key[2], f, fail)
    \/ \E key \in K, f \in FileMaps, fail \in F :
           IndexProjectFiles(f, key[1], key[2], fail)
    \/ \E key \in K, q \in Queries, k \in 1..MaxK, ft \in FileTypeArgs,
          fail \in F \cap {"none", "encode"} :
           SearchProject(key[1], key[2], q, k, ft, fail)
    \/ \E key \in K, q \in Queries, k \in 1..MaxK,
          fail \in F \cap {"none", "encode"} :
           SearchSimilarCode(q, k, key[1], key[2], fail)
    \/ \E key \in K : GenerateProjectSummary(key[1], key[2])
    \/ \E key \in K : ClearProject(key[1], key[2])
    \/ NewProjectRAG

\* one project, every call may raise where the code can
Next == NextFor(OneKey, FailPoints)

Spec == Init /\ [][Next]_vars

\* several projects, no call raises
NextKeys == NextFor(Keys, {"none"})

SpecKeys == Init /\ [][NextKeys]_vars

\* one project that is indexed, searched with any query string, the empty
\* one included, and asked for context; no call raises
NextContext ==
    \/ \E key \in OneKey, f \in ContextFileMaps :
           IndexProject(key[1], key[2], f, "none")
    \/ \E key \in OneKey, q \in Queries \cup {""}, k \in 1..MaxK :
           SearchSimilarCode(q, k, key[1], key[2], "none")
    \/ \E key \in OneKey, q \in Queries \cup {""}, k \in 1..MaxK :
           GetRelevantContext(key[1], key[2], q, k)
    \/ \E key \in OneKey : ClearProject(key[1], key[2])

SpecContext == Init /\ [][NextContext]_vars

\* one ProjectRAG instance, the only writer of its storage directory, whose
\* calls all return
NextSingle ==
    \/ \E key \in Keys, f \in FileMaps :
           IndexProject(key[1], key[2], f, "none")
    \/ \E key \in Keys, q \in Queries, k \in 1..MaxK, ft \in FileTypeArgs :
           SearchProject(key[1], key[2], q, k, ft, "none")
    \/ \E key \in Keys : GenerateProjectSummary(key[1], key[2])
    \/ \E key \in Keys : ClearProject(key[1], key[2])

SpecSingle == Init /\ [][NextSingle]_vars

\* file maps of two files
TwoFileMaps ==
    {<< <<"b.txt", TxtText>>, <<"c.txt", TxtText>> >>,
     << <<"c.txt", TxtText>>, <<"b.txt", TxtText>> >>,
     << <<"a.py", PyText>>, <<"b.txt", TxtText>> >>}

\* the longest chunk list of a project that is only indexed
MaxAppended == MaxChunks + 2

\* one project that is indexed again and again, from maps of one and of two
\* files, and cleared; every call may raise where the code can
NextAppend ==
    \/ \E key \in OneKey, f \in FileMaps \cup TwoFileMaps, fail \in FailPoints :
           IndexStepUpTo(MaxAppended, "index_project", key[1], key[2], f, fail)
    \/ \E key \in OneKey : ClearProject(key[1], key[2])

SpecAppend == Init /\ [][NextAppend]_vars

(***************************************************************************)
(* Two ProjectRAG instances over one storage directory                     *)
(***************************************************************************)
\* vector_stores is the cache of the first instance and other_stores the
\* vector_stores of the second one: __init__ gives every instance a dict of
\* its own
\* index_project on the second instance
OtherIndexProject(user_id, project_id, files_content) ==
    LET store_key == StoreKey(user_id, project_id)
        chunks == process_files(files_content, user_id, project_id)
        r == index_project(disk[store_key], chunks, "none")
    IN  /\ r.outcome = "ok"
        /\ Len(r.store.chunks) <= MaxChunks
        /\ Len(r.store.index) <= MaxChunks
        /\ disk' = [disk EXCEPT ![store_key] = r.d]
        /\ other_stores' = IndexCache(other_stores, store_key, r)
        /\ last' = [NoCall EXCEPT !.op = "other_index_project",
                                  !.user_id = user_id, !.project_id = project_id,
                                  !.before = Before(vector_stores, disk, store_key),
                                  !.chunks = chunks, !.count = Len(chunks)]
        /\ UNCHANGED <<vector_stores, vs, vsdisk, calls, chunked, session>>

\* clear_project on the second instance
OtherClearProject(user_id, project_id) ==
    LET store_key == StoreKey(user_id, project_id)
    IN  /\ other_stores' = ClearCache(other_stores, store_key)
        /\ disk' = [disk EXCEPT ![store_key] = RemoveArtifacts(@)]
        /\ last' = [NoCall EXCEPT !.op = "other_clear_project",
                                  !.user_id = user_id, !.project_id = project_id,
                                  !.before = Before(vector_stores, disk, store_key)]
        /\ UNCHANGED <<vector_stores, vs, vsdisk, calls, chunked, session>>

\* the first instance indexes, searches and clears; the second one indexes
\* and clears; no call raises
NextTwo ==
    \/ \E key \in OneKey, f \in FileMaps :
           IndexProject(key[1], key[2], f, "none")
    \/ \E key \in OneKey, q \in Queries, k \in 1..MaxK :
           SearchProject(key[1], key[2], q, k, PyNone, "none")
    \/ \E key \in OneKey : ClearProject(key[1], key[2])
    \/ \E key \in OneKey, f \in FileMaps :
           OtherIndexProject(key[1], key[2], f)
    \/ \E key \in OneKey : OtherClearProject(key[1], key[2])

SpecTwo == Init /\ [][NextTwo]_vars

(***************************************************************************)
(* The session of the application: app_final.py                            *)
(***************************************************************************)
\* the user_id and chat_id arguments of initialize_rag_system; "" stands for
\* None
SessionUsers == {"a"}
ChatIds == {"", "1"}

\* project_id = f"chat_{chat_id}" if chat_id else "current"
ChatProject(chat_id) == IF chat_id # "" THEN "chat_" \o chat_id ELSE "current"

\* "if not user_id: user_id = 'default'"
SessionUser(user_id) == IF user_id = "" THEN "default" ELSE user_id

SessionStoreKeys ==
    {StoreKey(SessionUser(user_id), ChatProject(chat_id)) :
        user_id \in SessionUsers, chat_id \in ChatIds}

SessionInit ==
    /\ disk = [key \in SessionStoreKeys |-> NoArtifacts]
    /\ vector_stores = [key \in {} |-> NewVectorStore]
    /\ last = NoCall
    /\ vs = NewVectorStore
    /\ vsdisk = NoArtifacts
    /\ calls = [t \in Threads |-> IdleCall]
    /\ chunked = NotChunked
    /\ other_stores = [key \in {} |-> NewVectorStore]
    /\ session = NoSession

\* "if st.session_state.project_rag is None:
\*      st.session_state.project_rag = ProjectRAG()": the cache of the
\* instance the session holds afterwards
SessionStores ==
    IF session.project_rag THEN vector_stores
    ELSE [key \in {} |-> NewVectorStore]

\* initialize_rag_system(files_content, user_id, chat_id) with RAG_AVAILABLE
InitializeRagSystem(files_content, user_id, chat_id) ==
    LET uid == SessionUser(user_id)
        project_id == ChatProject(chat_id)
        store_key == StoreKey(uid, project_id)
        chunks == process_files(files_content, uid, project_id)
        r == index_project(disk[store_key], chunks, "none")
    IN  /\ r.outcome = "ok"
        /\ Len(r.store.chunks) <= MaxChunks
        /\ Len(r.store.index) <= MaxChunks
        /\ disk' = [disk EXCEPT ![store_key] = r.d]
        /\ vector_stores' = IndexCache(SessionStores, store_key, r)
        /\ session' = [project_rag |-> TRUE, indexed |-> TRUE,
                       user_id |-> uid, project_id |-> project_id]
        /\ last' = [NoCall EXCEPT !.op = "initialize_rag_system",
                                  !.user_id = uid, !.project_id = project_id,
                                  !.before = Before(SessionStores, disk, store_key),
                                  !.chunks = chunks, !.count = Len(chunks)]
        /\ UNCHANGED <<vs, vsdisk, calls, chunked, other_stores>>

\* get_rag_context(query, max_results): [] without an instance or an indexed
\* project_context, else search_similar_code under the ids of the context
GetRagContext(query, max_results) ==
    IF ~session.project_rag \/ ~session.indexed
    THEN /\ last' = [NoCall EXCEPT !.op = "get_rag_context", !.query = query,
                                   !.k = max_results]
         /\ UNCHANGED <<disk, vector_stores, vs, vsdisk, calls, chunked,
                        other_stores, session>>
    ELSE /\ SearchSimilarCode(query, max_results, session.user_id,
                              session.project_id, "none")

\* reset_session_for_new_chat that keeps the indexes of the instance
ResetCache_Keep(stores) == stores

\* "st.session_state.project_rag.vector_stores.clear()"
ResetCache(stores) == [key \in {} |-> NewVectorStore]

\* reset_session_for_new_chat(): project_context = {}, the indexes of the
\* instance cleared and the instance dropped; the uploader and project
\* generation state it resets as well is not modelled
ResetSessionForNewChat ==
    /\ session' = NoSession
    /\ vector_stores' = IF session.project_rag THEN ResetCache(vector_stores)
                        ELSE vector_stores
    /\ last' = [NoCall EXCEPT !.op = "reset_session_for_new_chat"]
    /\ UNCHANGED <<disk, vs, vsdisk, calls, chunked, other_stores>>

NextSession ==
    \/ \E f \in FileMaps, user_id \in SessionUsers, chat_id \in ChatIds :
           InitializeRagSystem(f, user_id, chat_id)
    \/ \E q \in Queries, k \in 1..MaxK : GetRagContext(q, k)
    \/ ResetSessionForNewChat

SpecSession == SessionInit /\ [][NextSession]_vars

(***************************************************************************)
(* One VectorStore object used directly, with one artifact pair             *)
(***************************************************************************)
\* the (user_id, project_id) the chunks handed to add_chunks were made for
VSKey == <<"a", "b_c">>

\* vs = VectorStore()
VSNew ==
    /\ vs' = NewVectorStore
    /\ last' = [NoCall EXCEPT !.op = "VectorStore"]
    /\ UNCHANGED <<disk, vector_stores, vsdisk, calls, chunked, other_stores, session>>

\* vs.add_chunks(chunks)
VSAddChunks(files_content, fail) ==
    LET chunks == process_files(files_content, VSKey[1], VSKey[2])
        raised == chunks # <<>> /\ fail = "encode"
        store2 == IF raised THEN vs ELSE add_chunks(vs, chunks)
    IN  /\ fail = "encode" => chunks # <<>>
        /\ Len(store2.chunks) <= MaxChunks
        /\ Len(store2.index) <= MaxChunks
        /\ vs' = store2
        /\ last' = [NoCall EXCEPT !.op = "add_chunks", !.chunks = chunks,
                                  !.fail = fail,
                                  !.outcome = IF raised THEN "raise" ELSE "ok"]
        /\ UNCHANGED <<disk, vector_stores, vsdisk, calls, chunked, other_stores, session>>

\* vs.search(query, k, filters)
VSSearch(query, k, filters, fail) ==
    LET call == [NoCall EXCEPT !.op = "search", !.query = query, !.k = k,
                               !.filters = filters]
    IN  /\ UNCHANGED <<disk, vector_stores, vs, vsdisk, calls, chunked, other_stores, session>>
        /\ IF Len(vs.index) = 0
           THEN /\ fail = "none"
                /\ last' = call
           ELSE IF fail = "encode"
           THEN last' = [call EXCEPT !.outcome = "raise", !.fail = "encode"]
           ELSE \E cand \in Candidates(vs, query, k) :
                   last' = [call EXCEPT
                              !.cand = cand,
                              !.results = search(vs, query, k, filters, cand)]

\* vs.save(path)
VSSave(fail) ==
    LET sv == save(vs, vsdisk, fail)
    IN  /\ vsdisk' = sv.d
        /\ last' = [NoCall EXCEPT !.op = "save", !.fail = fail,
                                  !.outcome = IF sv.raised THEN "raise" ELSE "ok"]
        /\ UNCHANGED <<disk, vector_stores, vs, calls, chunked, other_stores, session>>

\* vs.load(path)
VSLoad ==
    LET ld == load(vs, vsdisk)
    IN  /\ vs' = ld.store
        /\ last' = [NoCall EXCEPT !.op = "load",
                                  !.fail = IF ld.raised THEN "load" ELSE "none",
                                  !.outcome = IF ld.raised THEN "raise" ELSE "ok"]
        /\ UNCHANGED <<disk, vector_stores, vsdisk, calls, chunked, other_stores, session>>

\* vs = VectorStore(); vs.load(path)
VSLoadFresh ==
    LET ld == load(NewVectorStore, vsdisk)
    IN  /\ vs' = ld.store
        /\ last' = [NoCall EXCEPT !.op = "load_fresh",
                                  !.fail = IF ld.raised THEN "load" ELSE "none",
                                  !.outcome = IF ld.raised THEN "raise" ELSE "ok"]
        /\ UNCHANGED <<disk, vector_stores, vsdisk, calls, chunked, other_stores, session>>

\* a VectorStore that is filled and searched in memory
NextVS ==
    \/ VSNew
    \/ \E f \in FileMaps, fail \in {"none", "encode"} : VSAddChunks(f, fail)
    \/ \E q \in Queries \cup {""}, k \in 1..MaxK, filters \in FilterArgs,
          fail \in {"none", "encode"} : VSSearch(q, k, filters, fail)

SpecVS == Init /\ [][NextVS]_vars

\* a VectorStore that is filled, saved and loaded
NextVSPersist ==
    \/ VSNew
    \/ \E f \in FileMaps, fail \in {"none", "encode"} : VSAddChunks(f, fail)
    \/ \E fail \in FailPoints \ {"encode"} : VSSave(fail)
    \/ VSLoad
    \/ VSLoadFresh

SpecVSPersist == Init /\ [][NextVSPersist]_vars

(***************************************************************************)
(* The chunker applied to one file                                          *)
(***************************************************************************)
\* the texts of 1..MaxLines lines over an alphabet
Texts(alphabet) == UNION {[1..n -> alphabet] : n \in 1..MaxLines}

\* n times the same line
Repeat(line, n) == [i \in 1..n |-> line]

\* texts around the sizes at which the strategies cut: 50 lines of running
\* text for the code strategies, 100 lines for the generic one
LongTexts ==
    {Repeat("hello", n) :
        n \in {max_chunk_lines, max_chunk_lines + 1, max_chunk_lines + 2,
               2 * max_chunk_lines + 2, chunk_size, chunk_size + 1}}
    \cup {<<"import os">> \o Repeat("hello", max_chunk_lines + 1),
          Repeat("hello", max_chunk_lines + 1) \o <<"class A:">>,
          Repeat("", max_chunk_lines + 1) \o <<"class A:">>,
          Repeat("import os", max_chunk_lines + 2),
          <<"class A:">> \o Repeat("hello", max_chunk_lines - 1) \o <<"def foo():">>,
          <<"class A:">> \o Repeat("hello", max_chunk_lines) \o <<"def foo():">>}

\* the (filename, content) pairs handed to _chunk_file
ChunkerInputs ==
    ({"a.py"} \X (Texts(PyLines) \cup LongTexts))
    \cup ({"s.js"} \X (Texts(JsLines) \cup LongTexts))
    \cup ({"t.ts"} \X LongTexts)
    \cup ({"r.md"} \X Texts(MdLines))
    \cup ({"d.json"} \X JsonTexts)
    \cup ({"b.txt"} \X (Texts({"", "hello"}) \cup LongTexts))

ChunkerInit ==
    /\ disk = [key \in StoreKeys |-> NoArtifacts]
    /\ vector_stores = [key \in {} |-> NewVectorStore]
    /\ last = NoCall
    /\ vs = NewVectorStore
    /\ vsdisk = NoArtifacts
    /\ calls = [t \in Threads |-> IdleCall]
    /\ chunked \in {[NotChunked EXCEPT !.filename = file[1], !.content = file[2]] :
                        file \in ChunkerInputs}
    /\ other_stores = [key \in {} |-> NewVectorStore]
    /\ session = NoSession

\* chunks = self._chunk_file(filename, content, user_id, project_id)
ChunkFile ==
    /\ ~chunked.done
    /\ chunked' =
           IF ChunkRaises(chunked.filename, chunked.content)
           THEN [chunked EXCEPT !.raised = TRUE, !.done = TRUE]
           ELSE [chunked EXCEPT
                    !.chunks = _chunk_file(chunked.filename, chunked.content,
                                           VSKey[1], VSKey[2]),
                    !.done = TRUE]
    /\ UNCHANGED <<disk, vector_stores, last, vs, vsdisk, calls, other_stores, session>>

NextChunker == ChunkFile

SpecChunker == ChunkerInit /\ [][NextChunker]_vars

(***************************************************************************)
(* Two threads, each making one call on the same key of one ProjectRAG;     *)
(* a step is one access to the files or to the cache                        *)
(***************************************************************************)
\* the store key the calls work on
RaceKey == StoreKey(VSKey[1], VSKey[2])

\* the artifact pair one save of store writes
Snapshot(store) == [faiss |-> WriteFaiss(store), pkl |-> WritePkl(store)]

\* what the storage directory may hold when the calls start: nothing, or the
\* snapshot an earlier index_project call has saved
RaceDisks ==
    {NoArtifacts} \cup
    {Snapshot(add_chunks(NewVectorStore, process_files(f, VSKey[1], VSKey[2]))) :
        f \in FileMaps}

RaceInit ==
    /\ disk \in [StoreKeys -> RaceDisks]
    /\ vector_stores = [key \in {} |-> NewVectorStore]
    /\ last = NoCall
    /\ vs = NewVectorStore
    /\ vsdisk = NoArtifacts
    /\ calls = [t \in Threads |-> IdleCall]
    /\ chunked = NotChunked
    /\ other_stores = [key \in {} |-> NewVectorStore]
    /\ session = NoSession

\* where a call goes on after vector_store.load(store_path)
AfterLoad(op) == IF op = "index_project" THEN "write_faiss" ELSE "cache"

\* index_project: process_files(...) and vector_store = VectorStore()
RaceIndexBegin(t, files_content) ==
    /\ calls[t].pc = "idle"
    /\ calls' = [calls EXCEPT ![t] =
                    [IdleCall EXCEPT
                       !.pc = "exists", !.op = "index_project",
                       !.chunks = process_files(files_content, VSKey[1], VSKey[2])]]
    /\ UNCHANGED <<disk, vector_stores, last, vs, vsdisk, chunked, other_stores, session>>

\* search_project: "if store_key not in self.vector_stores:
\* vector_store = VectorStore()"
RaceSearchBegin(t, query, k) ==
    /\ calls[t].pc = "idle"
    /\ calls' = [calls EXCEPT ![t] =
                    [IdleCall EXCEPT
                       !.pc = IF RaceKey \in DOMAIN vector_stores
                              THEN "use" ELSE "exists",
                       !.op = "search_project", !.query = query, !.k = k]]
    /\ UNCHANGED <<disk, vector_stores, last, vs, vsdisk, chunked, other_stores, session>>

\* "if os.path.exists(f'{store_path}.faiss'):"; search_project returns []
\* in the else branch
RaceExists(t) ==
    /\ calls[t].pc = "exists"
    /\ calls' = [calls EXCEPT ![t].pc =
                    IF Exists(disk[RaceKey].faiss) THEN "guard"
                    ELSE IF calls[t].op = "index_project" THEN "write_faiss"
                    ELSE "done"]
    /\ UNCHANGED <<disk, vector_stores, last, vs, vsdisk, chunked, other_stores, session>>

\* load: "if os.path.exists(f'{filepath}.faiss') and
\* os.path.exists(f'{filepath}.pkl'):"
RaceLoadGuard(t) ==
    /\ calls[t].pc = "guard"
    /\ calls' = [calls EXCEPT ![t].pc =
                    IF LoadGuard(disk[RaceKey]) THEN "read_faiss"
                    ELSE AfterLoad(calls[t].op)]
    /\ UNCHANGED <<disk, vector_stores, last, vs, vsdisk, chunked, other_stores, session>>

\* load: self.index = faiss.read_index(f"{filepath}.faiss")
RaceReadFaiss(t) ==
    /\ calls[t].pc = "read_faiss"
    /\ calls' = [calls EXCEPT ![t] =
                    IF disk[RaceKey].faiss.st = "ok"
                    THEN [@ EXCEPT !.pc = "read_pkl",
                                   !.store.index = disk[RaceKey].faiss.index]
                    ELSE [@ EXCEPT !.pc = "raised"]]
    /\ UNCHANGED <<disk, vector_stores, last, vs, vsdisk, chunked, other_stores, session>>

\* load: data = pickle.load(f); self.chunks = data['chunks']; ...
RaceReadPkl(t) ==
    /\ calls[t].pc = "read_pkl"
    /\ calls' = [calls EXCEPT ![t] =
                    IF disk[RaceKey].pkl.st = "ok"
                    THEN [@ EXCEPT !.pc = AfterLoad(calls[t].op),
                                   !.store.chunks = disk[RaceKey].pkl.chunks,
                                   !.store.dimension = disk[RaceKey].pkl.dimension]
                    ELSE [@ EXCEPT !.pc = "raised"]]
    /\ UNCHANGED <<disk, vector_stores, last, vs, vsdisk, chunked, other_stores, session>>

\* index_project: vector_store.add_chunks(chunks), then save up to
\* faiss.write_index(self.index, f"{filepath}.faiss")
RaceWriteFaiss(t) ==
    LET store2 == add_chunks(calls[t].store, calls[t].chunks)
    IN  /\ calls[t].pc = "write_faiss"
        /\ disk' = [disk EXCEPT ![RaceKey].faiss = WriteFaiss(store2)]
        /\ calls' = [calls EXCEPT ![t].pc = "write_pkl", ![t].store = store2]
        /\ UNCHANGED <<vector_stores, last, vs, vsdisk, chunked, other_stores, session>>

\* save: with open(f"{filepath}.pkl", 'wb') as f: pickle.dump(...)
RaceWritePkl(t) ==
    /\ calls[t].pc = "write_pkl"
    /\ disk' = [disk EXCEPT ![RaceKey].pkl = WritePkl(calls[t].store)]
    /\ calls' = [calls EXCEPT ![t].pc = "cache"]
    /\ UNCHANGED <<vector_stores, last, vs, vsdisk, chunked, other_stores, session>>

\* self.vector_stores[store_key] = vector_store; index_project returns
RaceCache(t) ==
    /\ calls[t].pc = "cache"
    /\ vector_stores' = CachePut(vector_stores, RaceKey, calls[t].store)
    /\ calls' = [u \in Threads |->
                    IF u = t
                    THEN [calls[t] EXCEPT
                            !.holds = TRUE,
                            !.pc = IF calls[t].op = "index_project"
                                   THEN "done" ELSE "use"]
                    ELSE [calls[u] EXCEPT !.holds = FALSE]]
    /\ UNCHANGED <<disk, last, vs, vsdisk, chunked, other_stores, session>>

\* search_project: vector_store = self.vector_stores[store_key];
\* return vector_store.search(query, k, filters)
RaceUse(t) ==
    LET store == vector_stores[RaceKey]
        owners == {u \in Threads : calls[u].holds}
        used == [calls[t] EXCEPT
                   !.pc = "done", !.store = store,
                   !.uses = IF owners = {} THEN NoThread
                            ELSE CHOOSE u \in owners : TRUE]
    IN  /\ calls[t].pc = "use"
        /\ IF Len(store.index) = 0
           THEN calls' = [calls EXCEPT ![t] = used]
           ELSE \E cand \in Candidates(store, calls[t].query, calls[t].k) :
                   calls' = [calls EXCEPT ![t] =
                               [used EXCEPT !.results =
                                   search(store, calls[t].query, calls[t].k,
                                          NoFilters, cand)]]
        /\ UNCHANGED <<disk, vector_stores, last, vs, vsdisk, chunked, other_stores, session>>

NextRace ==
    \/ \E t \in Threads, f \in FileMaps : RaceIndexBegin(t, f)
    \/ \E t \in Threads, q \in Queries, k \in 1..MaxK : RaceSearchBegin(t, q, k)
    \/ \E t \in Threads : RaceExists(t)
    \/ \E t \in Threads : RaceLoadGuard(t)
    \/ \E t \in Threads : RaceReadFaiss(t)
    \/ \E t \in Threads : RaceReadPkl(t)
    \/ \E t \in Threads : RaceWriteFaiss(t)
    \/ \E t \in Threads : RaceWritePkl(t)
    \/ \E t \in Threads : RaceCache(t)
    \/ \E t \in Threads : RaceUse(t)

SpecRace == RaceInit /\ [][NextRace]_vars

(***************************************************************************)
(* Properties                                                              *)
(***************************************************************************)
\* the store key of the call recorded in l
KeyOf(l) == StoreKey(l.user_id, l.project_id)

\* chunks without the embedding attribute that add_chunks sets
Bare(chunks) ==
    [i \in 1..Len(chunks) |-> [chunks[i] EXCEPT !.embedding = NoEmbedding]]

\* the chunk records a readable .pkl artifact holds
PersistedChunks(d) == IF d.pkl.st = "ok" THEN d.pkl.chunks ELSE <<>>

\* position i of the search structure is the embedding of chunk i
Aligned(store) ==
    /\ Len(store.index) = Len(store.chunks)
    /\ \A i \in 1..Len(store.chunks) :
           store.index[i] = Embed(store.chunks[i].content)

\* C1: in every cached VectorStore the number of vectors equals the number
\* of chunks and the i-th vector is the embedding of the i-th chunk,
\* whatever index_project calls (loading a persisted snapshot first) made it.
C1_OrderInvariant ==
    \A key \in DOMAIN vector_stores : Aligned(vector_stores[key])

\* C2: index_project is cumulative: when it returns, the .pkl artifact and
\* the cache entry of the key hold the chunks persisted before the call
\* followed by the chunks of this call, and it returns the number of chunks
\* of this call.
C2_IndexCumulative ==
    [][(last'.op = "index_project" /\ last'.outcome = "ok") =>
          LET key == KeyOf(last')
              expected == Bare(PersistedChunks(disk[key])) \o Bare(last'.chunks)
          IN  /\ disk'[key].pkl.st = "ok"
              /\ Bare(disk'[key].pkl.chunks) = expected
              /\ key \in DOMAIN vector_stores'
              /\ Bare(vector_stores'[key].chunks) = expected
              /\ last'.count = Len(last'.chunks)]_vars

\* an index_project call returned after appending its chunks to chunks that
\* were persisted before
C2_Witness ==
    /\ last.op = "index_project"
    /\ last.outcome = "ok"
    /\ last.before.pkl = "ok"
    /\ Len(last.chunks) > 0
    /\ Len(vector_stores[KeyOf(last)].chunks) > Len(last.chunks)
    /\ last.count = Len(last.chunks)

\* the cached and the persisted chunk list of a (user_id, project_id) pair
CachedChunks(stores, key) ==
    IF StoreKey(key[1], key[2]) \in DOMAIN stores
    THEN [present |-> TRUE, chunks |-> stores[StoreKey(key[1], key[2])].chunks]
    ELSE [present |-> FALSE, chunks |-> <<>>]

StoredChunks(d, key) ==
    [st |-> d[StoreKey(key[1], key[2])].pkl.st,
     chunks |-> d[StoreKey(key[1], key[2])].pkl.chunks]

\* C3: two different (user_id, project_id) pairs never share an index:
\* index_project or clear_project on one pair leaves the cached and the
\* persisted chunk list of every other pair unchanged, and every search
\* result for a pair is a chunk that was indexed under that pair.
C3_KeyIsolation ==
    [][/\ last'.op \in {"index_project", "clear_project"} =>
            \A K2 \in Keys \ {<<last'.user_id, last'.project_id>>} :
                /\ CachedChunks(vector_stores', K2) = CachedChunks(vector_stores, K2)
                /\ StoredChunks(disk', K2) = StoredChunks(disk, K2)
       /\ last'.op = "search_similar_code" =>
            \A i \in 1..Len(last'.results) :
                /\ last'.results[i].chunk.user_id = last'.user_id
                /\ last'.results[i].chunk.project_id = last'.project_id]_vars

\* C4: a search on a key with no cache entry and no persisted artifact
\* returns an empty sequence without raising and changes neither the cache
\* nor the storage directory.
C4_SearchUnindexed ==
    [][(/\ last'.op \in {"search_project", "search_similar_code"}
        /\ KeyOf(last') \notin DOMAIN vector_stores
        /\ disk[KeyOf(last')] = NoArtifacts) =>
          /\ last'.outcome = "ok"
          /\ last'.results = <<>>
          /\ last'.formatted = <<>>
          /\ vector_stores' = vector_stores
          /\ disk' = disk]_vars

\* a search was made on a key with nothing cached and nothing persisted
C4_Witness ==
    /\ last.op = "search_similar_code"
    /\ ~last.before.cached
    /\ last.before.faiss = "absent"
    /\ last.before.pkl = "absent"
    /\ last.outcome = "ok"
    /\ last.formatted = <<>>
    /\ KeyOf(last) \notin DOMAIN vector_stores

\* C5: after clear_project the key has no cache entry and neither artifact,
\* whatever existed before; on a key that is already absent the call
\* changes nothing; it never raises.
C5_ClearProject ==
    [][last'.op = "clear_project" =>
          /\ last'.outcome = "ok"
          /\ KeyOf(last') \notin DOMAIN vector_stores'
          /\ disk'[KeyOf(last')] = NoArtifacts
          /\ (KeyOf(last') \notin DOMAIN vector_stores
              /\ disk[KeyOf(last')] = NoArtifacts)
                 => (vector_stores' = vector_stores /\ disk' = disk)]_vars

\* clear_project ran on a key that was cached and had both artifacts
C5_Witness ==
    /\ last.op = "clear_project"
    /\ last.before.cached
    /\ last.before.faiss = "ok"
    /\ last.before.pkl = "ok"
    /\ KeyOf(last) \notin DOMAIN vector_stores
    /\ disk[KeyOf(last)] = NoArtifacts

\* C6: generate_project_summary returns the not-indexed signal exactly when
\* the key has no cache entry (a persisted snapshot that was not loaded
\* included), otherwise the summary of the cached chunk list; it never
\* raises and never touches the cache or the disk.
C6_SummaryNotIndexed ==
    [][last'.op = "generate_project_summary" =>
          /\ last'.outcome = "ok"
          /\ (last'.summary = NotIndexed) <=> (KeyOf(last') \notin DOMAIN vector_stores)
          /\ KeyOf(last') \in DOMAIN vector_stores =>
                /\ last'.summary.error = ""
                /\ last'.summary.total_chunks =
                       Len(vector_stores[KeyOf(last')].chunks)
                /\ last'.summary.files =
                       {c.filename : c \in Range(vector_stores[KeyOf(last')].chunks)}
          /\ vector_stores' = vector_stores
          /\ disk' = disk]_vars

\* a summary was asked for a key that is persisted but not loaded
C6_Witness ==
    /\ last.op = "generate_project_summary"
    /\ ~last.before.cached
    /\ last.before.faiss = "ok"
    /\ last.before.pkl = "ok"
    /\ Len(disk[KeyOf(last)].pkl.chunks) > 0
    /\ last.summary = NotIndexed

\* the score FAISS reports for position pos of the store for a query
ScoreAt(store, query, pos) == IP(Embed(<<query>>), store.index[pos])

\* an unfiltered search returned from a store whose vectors and chunks agree
UnfilteredSearch ==
    /\ last.op = "search"
    /\ last.outcome = "ok"
    /\ DOMAIN last.filters = {}
    /\ Aligned(vs)

\* results are the chunks at the candidate positions, scored by the inner
\* product with the query, ranked 1, 2, ... in the order returned
ResultsFollow(store, l) ==
    /\ Len(l.results) = Len(l.cand)
    /\ \A i \in 1..Len(l.results) :
           /\ l.results[i].rank = i
           /\ l.results[i].chunk = store.chunks[l.cand[i]]
           /\ l.results[i].similarity_score =
                  IP(Embed(<<l.query>>), Embed(l.results[i].chunk.content))

\* position a comes before position b: higher score, or equal score and
\* inserted earlier
Before_Strict(store, query, a, b) ==
    \/ ScoreAt(store, query, a) > ScoreAt(store, query, b)
    \/ /\ ScoreAt(store, query, a) = ScoreAt(store, query, b)
       /\ a < b

\* C7 as stated: without filters search(q, k) returns exactly min(k, n)
\* results, the chunks with the highest inner product in descending score
\* order with ties broken by insertion order, ranks 1..min(k, n); an empty
\* index gives an empty result without error.
C7_TopKInsertionOrder ==
    /\ (last.op = "search" /\ Len(vs.index) = 0) =>
           (last.outcome = "ok" /\ last.results = <<>>)
    /\ UnfilteredSearch =>
           /\ Len(last.results) = Min(last.k, Len(vs.chunks))
           /\ ResultsFollow(vs, last)
           /\ \A i, j \in 1..Len(last.cand) :
                  i < j => Before_Strict(vs, last.query, last.cand[i], last.cand[j])
           /\ \A i \in 1..Len(last.cand) :
                  \A p \in (1..Len(vs.chunks)) \ Range(last.cand) :
                      Before_Strict(vs, last.query, last.cand[i], p)

\* C7 (amended): without filters search(q, k) returns exactly min(k, n)
\* results with ranks 1..min(k, n), in non-increasing score order, and no
\* chunk left out scores higher than a returned one; the order among chunks
\* of equal score is not fixed; an empty index gives an empty result
\* without error.
C7_TopK ==
    /\ (last.op = "search" /\ Len(vs.index) = 0) =>
           (last.outcome = "ok" /\ last.results = <<>>)
    /\ UnfilteredSearch =>
           /\ Len(last.results) = Min(last.k, Len(vs.chunks))
           /\ ResultsFollow(vs, last)
           /\ \A i, j \in 1..Len(last.cand) :
                  i < j => ScoreAt(vs, last.query, last.cand[i])
                               >= ScoreAt(vs, last.query, last.cand[j])
           /\ \A i \in 1..Len(last.cand) :
                  \A p \in (1..Len(vs.chunks)) \ Range(last.cand) :
                      ScoreAt(vs, last.query, last.cand[i])
                          >= ScoreAt(vs, last.query, p)

\* an unfiltered search returned two chunks of equal score, the one inserted
\* later first
C7_Witness ==
    /\ UnfilteredSearch
    /\ Len(last.results) = 2
    /\ last.results[1].similarity_score = last.results[2].similarity_score
    /\ last.cand[1] > last.cand[2]
    /\ last.results[2].rank = 2

\* the metadata of a chunk has every filter key with the required value
Satisfies(chunk, filters) ==
    \A key \in DOMAIN filters :
        /\ key \in MetaKeys(chunk)
        /\ Metadata(chunk, key).kind = filters[key].kind
        /\ Metadata(chunk, key).v = filters[key].v

\* the places in the candidate list whose chunk passes the filters
Passing(store, l) ==
    {j \in 1..Len(l.cand) :
        /\ l.cand[j] <= Len(store.chunks)
        /\ Satisfies(store.chunks[l.cand[j]], l.filters)}

\* the i-th smallest element of a set of naturals
Nth(S, i) == CHOOSE j \in S : Cardinality({x \in S : x <= j}) = i

\* C8: filtering is post-retrieval: search(q, k, filters) returns exactly
\* the candidates of the top-min(k, n) window that satisfy every filter
\* entry, in the window's order, with ranks renumbered 1..m, and never a
\* chunk outside the window.
C8_PostFilter ==
    (last.op = "search" /\ last.outcome = "ok" /\ Len(vs.index) > 0) =>
        /\ last.cand \in FaissSearch(vs.index, Embed(<<last.query>>),
                                     Min(last.k, Len(vs.index)))
        /\ Len(last.results) = Cardinality(Passing(vs, last))
        /\ \A i \in 1..Len(last.results) :
               /\ last.results[i].rank = i
               /\ last.results[i].chunk =
                      vs.chunks[last.cand[Nth(Passing(vs, last), i)]]
               /\ last.results[i].similarity_score =
                      ScoreAt(vs, last.query, last.cand[Nth(Passing(vs, last), i)])

\* a filtered search returned fewer than k results although a chunk outside
\* the candidate window satisfies the filters
C8_Witness ==
    /\ last.op = "search"
    /\ last.outcome = "ok"
    /\ DOMAIN last.filters # {}
    /\ Aligned(vs)
    /\ Len(last.results) < last.k
    /\ \E p \in (1..Len(vs.chunks)) \ Range(last.cand) :
           Satisfies(vs.chunks[p], last.filters)

\* C9: with file_types = T, search_project returns every chunk among the
\* top-min(k, n) candidates whose type is a member of T.
C9_FilterMembership ==
    (/\ last.op = "search_project"
     /\ last.outcome = "ok"
     /\ "type" \in DOMAIN last.filters
     /\ KeyOf(last) \in DOMAIN vector_stores) =>
        LET store == vector_stores[KeyOf(last)]
            members == {j \in 1..Len(last.cand) :
                           /\ last.cand[j] <= Len(store.chunks)
                           /\ store.chunks[last.cand[j]].type
                                  \in Range(last.filters["type"].v)}
        IN  /\ Len(last.results) = Cardinality(members)
            /\ \A i \in 1..Len(last.results) :
                   last.results[i].chunk = store.chunks[last.cand[Nth(members, i)]]

\* C10: an index_project call that raises leaves the persisted artifact pair
\* of its key exactly as it was before the call.
C10_FailedIndexLeavesDisk ==
    [][(last'.op = "index_project" /\ last'.outcome = "raise") =>
          disk'[KeyOf(last')] = disk[KeyOf(last')]]_vars

\* C11: an index_project call whose embedder call raises propagates the
\* failure, writes nothing to disk and leaves the cache as it was, so that no
\* chunk of the batch reaches an index; a search_similar_code call whose
\* embedder call raises propagates the failure and returns no result.
C11_EmbedderFailure ==
    [][(last'.fail = "encode" /\ last'.op \in {"index_project", "search_similar_code"}) =>
          /\ last'.outcome = "raise"
          /\ last'.count = 0
          /\ last'.results = <<>>
          /\ last'.formatted = <<>>
          /\ disk' = disk
          /\ last'.op = "index_project" => vector_stores' = vector_stores]_vars

\* an index_project call with a non-empty batch fails in the embedder on a
\* key that has a snapshot on disk and no cache entry
C11_Witness ==
    /\ last.op = "index_project"
    /\ last.fail = "encode"
    /\ last.outcome = "raise"
    /\ last.chunks # <<>>
    /\ last.before.faiss = "ok"
    /\ last.before.pkl = "ok"
    /\ ~last.before.cached
    /\ KeyOf(last) \notin DOMAIN vector_stores

\* a persisted pair that is not a snapshot of one store: one artifact without
\* the other, a file cut short, a dimension other than the embedder's, or a
\* vector count other than the chunk-record count
Mismatched(d) ==
    \/ Exists(d.faiss) # Exists(d.pkl)
    \/ d.faiss.st = "corrupt"
    \/ d.pkl.st = "corrupt"
    \/ /\ d.faiss.st = "ok"
       /\ d.pkl.st = "ok"
       /\ \/ d.pkl.dimension # ModelDimension
          \/ Len(d.faiss.index) # Len(d.pkl.chunks)

\* the call recorded in l went to the persisted pair d for its store
LoadsSnapshot(l, d) ==
    /\ Exists(d.faiss)
    /\ \/ l.op = "index_project"
       \/ l.op \in {"search_project", "search_similar_code"} /\ ~l.before.cached

\* C12: an index_project or search_project call that loads a corrupt or
\* mismatched snapshot raises from load; it never goes on with the store.
C12_LoadFailsLoudly ==
    [][(/\ last'.op \in {"index_project", "search_project", "search_similar_code"}
        /\ LoadsSnapshot(last', disk[KeyOf(last')])
        /\ Mismatched(disk[KeyOf(last')])) =>
          (last'.outcome = "raise" /\ last'.fail = "load")]_vars

\* every result list search(query, k) can return on store
SearchOutcomes(store, query, k) ==
    IF Len(store.index) = 0 THEN {<<>>}
    ELSE {search(store, query, k, NoFilters, cand) :
              cand \in Candidates(store, query, k)}

C14_LastSaveWins ==
    (\A t \in Threads : calls[t].op = "index_project" /\ calls[t].pc = "done") =>
        \E t \in Threads : disk[RaceKey] = Snapshot(calls[t].store)

\* the search_project calls that are inside vector_store.load(store_path)
LoadsInFlight ==
    {t \in Threads : /\ calls[t].op = "search_project"
                     /\ calls[t].pc \in {"guard", "read_faiss", "read_pkl"}}

\* C15: at most one search_project call is loading the snapshot of the key
\* at a time, and two search_project calls that have returned have searched
\* the same VectorStore object.
C15_SingleLoadInFlight ==
    /\ Cardinality(LoadsInFlight) <= 1
    /\ (\A t \in Threads : calls[t].op = "search_project" /\ calls[t].pc = "done") =>
           \A t, u \in Threads : calls[t].uses = calls[u].uses

\* the chunks of chunks that come from the file named filename
ChunksOfFile(chunks, filename) ==
    SelectSeq(chunks, LAMBDA c : c.filename = filename)

\* C16: after an index_project call that returns, the index of the key holds,
\* for every file of the call, exactly the chunks this call made of it: the
\* chunks of an earlier indexing of the file are gone.
C16_ReindexReplaces ==
    (last.op = "index_project" /\ last.outcome = "ok") =>
        \A i \in 1..Len(last.chunks) :
            LET filename == last.chunks[i].filename
            IN  /\ ChunksOfFile(Bare(vector_stores[KeyOf(last)].chunks), filename)
                       = ChunksOfFile(last.chunks, filename)
                /\ ChunksOfFile(Bare(PersistedChunks(disk[KeyOf(last)])), filename)
                       = ChunksOfFile(last.chunks, filename)

\* C17: search_similar_code with the empty query string returns an empty
\* sequence and does not raise, whatever the index of the key holds.
C17_EmptyQuery ==
    (last.op = "search_similar_code" /\ last.query = "") =>
        (last.outcome = "ok" /\ last.formatted = <<>>)

\* one hit as the claim has it: the first 1000 characters of the content,
\* and the marker only behind a content that is longer
ClaimedPart(result) ==
    LET text == Join(result.chunk.content)
    IN  "\nFile: " \o result.chunk.filename
        \o "\nType: " \o result.chunk.type
        \o "\nRelevance Score: " \o FormatScore(result.similarity_score)
        \o "\n\nContent:\n" \o Prefix(text, shown_chars)
        \o (IF Len(text) > shown_chars THEN "..." ELSE "")
        \o "\n---\n"

RECURSIVE ClaimedContext(_)
ClaimedContext(results) ==
    IF results = <<>> THEN ""
    ELSE IF Len(results) = 1 THEN ClaimedPart(results[1])
    ELSE ClaimedPart(results[1]) \o "\n" \o ClaimedContext(Tail(results))

\* C18: the string get_relevant_context returns shows each hit with at most
\* the first 1000 characters of its content, followed by the marker "..."
\* exactly when the content is longer; the hits are in descending order of
\* similarity; without hits the string is empty.
C18_ContextTruncation ==
    (last.op = "get_relevant_context" /\ last.outcome = "ok") =>
        /\ last.context = ClaimedContext(last.results)
        /\ \A i \in 1..(Len(last.results) - 1) :
               last.results[i].similarity_score
                   >= last.results[i + 1].similarity_score

\* the strategy _chunk_file uses for filename
StrategyOf(filename) == supported_extensions(FileExt(filename))

\* the last line of the range of a chunk: end_line where the strategy sets
\* it, else start_line plus the number of lines of the chunk
RangeEnd(chunk) ==
    IF chunk.end_line # NoLine THEN chunk.end_line
    ELSE chunk.start_line + Len(chunk.content) - 1

\* C19: the line ranges of the chunks the generic and the code strategies
\* make of a non-empty file partition the lines 1..n, and every chunk starts
\* at the 1-based number of its first line.
C19_ChunkCoverage ==
    (/\ chunked.done
     /\ chunked.content # <<"">>
     /\ StrategyOf(chunked.filename) \in {"python", "javascript", "typescript", "text"}) =>
        /\ \A l \in 1..Len(chunked.content) :
               Cardinality({j \in 1..Len(chunked.chunks) :
                               /\ chunked.chunks[j].start_line <= l
                               /\ l <= RangeEnd(chunked.chunks[j])}) = 1
        /\ \A j \in 1..Len(chunked.chunks) :
               /\ chunked.chunks[j].start_line
                      = 1 + SumSeq([i \in 1..(j - 1) |-> Len(chunked.chunks[i].content)])
               /\ RangeEnd(chunked.chunks[j]) <= Len(chunked.content)

\* C20: every chunk the chunker makes has non-empty content, and the empty
\* text gives no chunk, whatever the extension of the file.
C20_NonEmptyChunks ==
    chunked.done =>
        /\ \A j \in 1..Len(chunked.chunks) : Join(chunked.chunks[j].content) # ""
        /\ chunked.content = <<"">> => chunked.chunks = <<>>

\* what a JSON text is by the JSON grammar: "mapping" with the set of its
\* top-level keys, "other" for any other well-formed document, "invalid"
JsonRoot(content) ==
    CASE content \in {<<"">>, <<"hello">>, <<"{\"a\": 1">>} ->
            [root |-> "invalid", keys |-> {}]
      [] content \in {<<"null">>, <<"[1, 2]">>, DeepJson} ->
            [root |-> "other", keys |-> {}]
      [] content = <<"{}">> -> [root |-> "mapping", keys |-> {}]
      [] content = <<"{\"a\": 1, \"b\": [1, 2]}">> ->
            [root |-> "mapping", keys |-> {"a", "b"}]
      [] content = <<"{\"\": {}}">> -> [root |-> "mapping", keys |-> {""}]
      [] OTHER -> [root |-> "mapping", keys |-> {"a"}]

\* C21: the JSON strategy never raises; a mapping gives exactly one chunk per
\* top-level key, each holding its key name; any other well-formed document
\* gives one whole-document chunk of type json_content; a text that does not
\* parse gives one whole-document chunk of type invalid_json.
C21_JsonStrategy ==
    (chunked.done /\ StrategyOf(chunked.filename) = "json") =>
        LET doc == JsonRoot(chunked.content)
            chunks == chunked.chunks
        IN  /\ ~chunked.raised
            /\ doc.root = "mapping" =>
                   /\ Len(chunks) = Cardinality(doc.keys)
                   /\ \A key \in doc.keys :
                          \E j \in 1..Len(chunks) :
                              /\ chunks[j].type = "json_key"
                              /\ chunks[j].key = <<key>>
                              /\ Head(chunks[j].content) = "Key: " \o key
            /\ doc.root = "other" =>
                   /\ Len(chunks) = 1
                   /\ chunks[1].type = "json_content"
                   /\ chunks[1].content = chunked.content
            /\ doc.root = "invalid" =>
                   /\ Len(chunks) = 1
                   /\ chunks[1].type = "invalid_json"
                   /\ chunks[1].content = chunked.content

\* the strategies that scan a file line by line for declarations
CodeStrategies == {"python", "javascript", "typescript"}

\* what a line of a code file is to the strategy of its file
LineKind(filename, line) ==
    LET stripped == Strip(line)
    IN  IF StrategyOf(filename) = "python"
        THEN CASE StartsWithImport(stripped) -> "imports"
               [] StartsWithClass(stripped) -> "class"
               [] StartsWithDef(stripped) -> "function"
               [] OTHER -> "general"
        ELSE CASE JsImport(stripped) -> "imports"
               [] JsClass(stripped) -> "class"
               [] JsFunction(stripped) -> "function"
               [] OTHER -> "general"

\* the lines of the chunks, one chunk after the other
RECURSIVE ChunkLines(_)
ChunkLines(chunks) ==
    IF chunks = <<>> THEN <<>>
    ELSE Head(chunks).content \o ChunkLines(Tail(chunks))

\* the 1-based number of the first line of chunk j, and the chunk of line l
FirstLine(chunks, j) == 1 + SumSeq([i \in 1..(j - 1) |-> Len(chunks[i].content)])

ChunkOf(chunks, l) ==
    CHOOSE j \in 1..Len(chunks) :
        FirstLine(chunks, j) <= l /\ l < FirstLine(chunks, j) + Len(chunks[j].content)

\* the type of the buffer when line l of a file without a size flush is
\* scanned: the kind of the last declaration line before l
TypeAt(filename, lines, l) ==
    LET decl == {m \in 1..(l - 1) : LineKind(filename, lines[m]) # "general"}
    IN  IF decl = {} THEN "general"
        ELSE LineKind(filename, lines[CHOOSE m \in decl : \A o \in decl : o <= m])

\* the lines where rules (a), (b), (c) close the buffer
Closes(filename, lines, l) ==
    LET kind == LineKind(filename, lines[l])
        type == TypeAt(filename, lines, l)
    IN  \/ kind = "imports" /\ type # "imports"
        \/ kind = "class"
        \/ kind = "function" /\ type # "class"

\* the first function line after the class line c, 0 when another class
\* line or the end of the file comes first
FirstMethod(filename, lines, c) ==
    LET after == {m \in (c + 1)..Len(lines) :
                     LineKind(filename, lines[m]) \in {"class", "function"}}
        m == CHOOSE o \in after : \A q \in after : o <= q
    IN  IF after = {} THEN 0
        ELSE IF LineKind(filename, lines[m]) = "function" THEN m ELSE 0

\* the class lines of the file that have a first method
ClassHeaders(filename, lines) ==
    {c \in 1..Len(lines) :
        /\ LineKind(filename, lines[c]) = "class"
        /\ FirstMethod(filename, lines, c) # 0}

\* the chunks are the lines of the file in source order, the trailing buffer
\* included, and in a file too short for a size flush a chunk begins exactly
\* at line 1 and at the lines where rules (a), (b), (c) close the buffer
FollowsRules ==
    LET lines == chunked.content
        chunks == chunked.chunks
    IN  /\ ChunkLines(chunks) = lines
        /\ Len(lines) <= max_chunk_lines =>
               \A l \in 2..Len(lines) :
                   (\E j \in 1..Len(chunks) : FirstLine(chunks, j) = l)
                       <=> Closes(chunked.filename, lines, l)

\* C22 as claimed: the chunks follow the boundary rules and the first method
\* after a class header is always in the chunk of that header.
C22_MethodAlwaysWithHeader ==
    (chunked.done /\ StrategyOf(chunked.filename) \in CodeStrategies) =>
        /\ FollowsRules
        /\ \A c \in ClassHeaders(chunked.filename, chunked.content) :
               ChunkOf(chunked.chunks, c)
                   = ChunkOf(chunked.chunks,
                             FirstMethod(chunked.filename, chunked.content, c))

\* no import line and fewer than max_chunk_lines lines lie between the class
\* line c and its first method
Attached(filename, lines, c) ==
    LET m == FirstMethod(filename, lines, c)
    IN  /\ m - c <= max_chunk_lines
        /\ \A l \in (c + 1)..(m - 1) : LineKind(filename, lines[l]) # "imports"

\* C22: the chunks follow the boundary rules (import closes a non-empty
\* buffer of another type, class closes any non-empty buffer, function closes
\* a non-empty buffer unless its type is class, the trailing buffer is the
\* last chunk, source order), and the first method after a class header is
\* in the chunk of that header exactly when no import line and no size flush
\* comes between them.
C22_BoundaryRules ==
    (chunked.done /\ StrategyOf(chunked.filename) \in CodeStrategies) =>
        /\ FollowsRules
        /\ \A c \in ClassHeaders(chunked.filename, chunked.content) :
               Attached(chunked.filename, chunked.content, c)
                   <=> ChunkOf(chunked.chunks, c)
                          = ChunkOf(chunked.chunks,
                                    FirstMethod(chunked.filename, chunked.content, c))

\* a class header, a body line and the first method in one chunk, with a
\* chunk closed before the header
C22_Witness ==
    /\ chunked.done
    /\ chunked.filename = "a.py"
    /\ chunked.content = <<"import os", "class A:", "def foo():">>
    /\ Len(chunked.chunks) = 2
    /\ chunked.chunks[2].content = <<"class A:", "def foo():">>

\* C23: under the code strategies no chunk has more than max_chunk_lines
\* lines, whatever the kinds of its lines, and the chunk that follows a chunk
\* of max_chunk_lines lines begins in a buffer of type general.
C23_SizeFlush ==
    (chunked.done /\ StrategyOf(chunked.filename) \in CodeStrategies) =>
        /\ \A j \in 1..Len(chunked.chunks) :
               Len(chunked.chunks[j].content) <= max_chunk_lines
        /\ \A j \in 1..(Len(chunked.chunks) - 1) :
               (/\ Len(chunked.chunks[j].content) = max_chunk_lines
                /\ LineKind(chunked.filename, Head(chunked.chunks[j + 1].content))
                       = "general") =>
                   chunked.chunks[j + 1].type = "general"

\* the level of a Markdown heading line, 0 for a line that is no heading
HeadingLevel(line) ==
    CASE line = "# Title" -> 1
      [] line = "## Sub" -> 2
      [] OTHER -> 0

\* the sections of a Markdown text as C24 describes them: a heading opens a
\* section when its level is the same as or higher than that of the heading
\* of the section it is in (level is that level, 0 before the first heading)
RECURSIVE ClaimedSections(_, _, _)
ClaimedSections(sections, level, lines) ==
    IF lines = <<>> THEN sections
    ELSE LET h == HeadingLevel(Head(lines))
         IN  IF h > 0 /\ (level = 0 \/ h <= level)
             THEN ClaimedSections(Append(sections, <<Head(lines)>>), h, Tail(lines))
             ELSE ClaimedSections(
                      [sections EXCEPT ![Len(sections)] = Append(@, Head(lines))],
                      level, Tail(lines))

NonEmptyText(lines) == lines # <<>>

\* C24: the chunks of a Markdown file are its sections, each a heading with
\* its body up to the next heading of the same or a higher level, trimmed, in
\* source order, without the sections that are empty after trimming.
C24_MarkdownSections ==
    (chunked.done /\ StrategyOf(chunked.filename) = "markdown") =>
        LET sections == ClaimedSections(<<<<Head(chunked.content)>>>>,
                                        HeadingLevel(Head(chunked.content)),
                                        Tail(chunked.content))
            trimmed == [i \in 1..Len(sections) |-> StripText(sections[i])]
        IN  [j \in 1..Len(chunked.chunks) |-> chunked.chunks[j].content]
                = SelectSeq(trimmed, NonEmptyText)

\* s is a prefix of t
IsPrefix(s, t) == Len(s) <= Len(t) /\ SubSeq(t, 1, Len(s)) = s

\* the chunks of each file are next to one another and in source order
FilesContiguous(chunks) ==
    \A i, j \in 1..Len(chunks) :
        (i < j /\ chunks[i].filename = chunks[j].filename) =>
            /\ \A m \in i..j : chunks[m].filename = chunks[i].filename
            /\ chunks[i].start_line < chunks[j].start_line

\* C25: an index_project call that returns leaves the persisted and the
\* cached chunk list with the list from before the call as a prefix, followed
\* by the chunks of the call, each file's chunks next to one another and in
\* source order; a call that raises leaves the cached list as it was.
C25_AppendOnly ==
    [][last'.op = "index_project" =>
          LET key == KeyOf(last')
              before == Bare(PersistedChunks(disk[key]))
              after == Bare(PersistedChunks(disk'[key]))
          IN  /\ last'.outcome = "ok" =>
                     /\ IsPrefix(before, after)
                     /\ key \in DOMAIN vector_stores =>
                            IsPrefix(vector_stores[key].chunks,
                                     vector_stores'[key].chunks)
                     /\ Bare(vector_stores'[key].chunks) = after
                     /\ SubSeq(after, Len(before) + 1, Len(after)) = Bare(last'.chunks)
                     /\ FilesContiguous(last'.chunks)
              /\ last'.outcome = "raise" => vector_stores' = vector_stores]_vars

\* a call with two files returned after appending to a non-empty list
C25_Witness ==
    /\ last.op = "index_project"
    /\ last.outcome = "ok"
    /\ last.before.cached
    /\ Cardinality({last.chunks[i].filename : i \in 1..Len(last.chunks)}) = 2
    /\ Len(vector_stores[KeyOf(last)].chunks) > Len(last.chunks)

\* the sum of the values of a function with a finite domain
RECURSIVE SumValues(_, _)
SumValues(f, keys) ==
    IF keys = {} THEN 0
    ELSE LET key == CHOOSE k \in keys : TRUE
         IN  f[key] + SumValues(f, keys \ {key})

\* C26: a summary made for a cached key agrees with the cached chunk list:
\* total_chunks is its length, total_files the number of distinct filenames,
\* the file_types counts add up to total_chunks, total_lines is the sum of
\* the numbers of lines of the chunks, a chunk being counted once per copy.
C26_SummaryConsistent ==
    (/\ last.op = "generate_project_summary"
     /\ KeyOf(last) \in DOMAIN vector_stores) =>
        LET chunks == vector_stores[KeyOf(last)].chunks
            summary == last.summary
        IN  /\ summary.error = ""
            /\ summary.total_chunks = Len(chunks)
            /\ summary.total_files
                   = Cardinality({chunks[i].filename : i \in 1..Len(chunks)})
            /\ SumValues(summary.file_types, DOMAIN summary.file_types)
                   = summary.total_chunks
            /\ summary.total_lines
                   = SumSeq([i \in 1..Len(chunks) |-> Len(chunks[i].content)])

\* a summary of a list that holds the same chunk of one file twice
C26_Witness ==
    /\ last.op = "generate_project_summary"
    /\ KeyOf(last) \in DOMAIN vector_stores
    /\ last.summary.total_chunks = 2
    /\ last.summary.total_files = 1
    /\ Bare(vector_stores[KeyOf(last)].chunks)[1]
           = Bare(vector_stores[KeyOf(last)].chunks)[2]

\* C27: in one ProjectRAG instance that is the only writer of its storage
\* directory and whose calls all return, every key with a cache entry has
\* both persisted artifacts, and the cached chunk list is the persisted one.
C27_CacheCoherence ==
    \A key \in DOMAIN vector_stores :
        /\ disk[key].faiss.st = "ok"
        /\ disk[key].pkl.st = "ok"
        /\ vector_stores[key].chunks = disk[key].pkl.chunks
        /\ vector_stores[key].index = disk[key].faiss.index

\* a search answered from a cache entry of two chunks that are also persisted
C27_Witness ==
    /\ last.op = "search_project"
    /\ last.results # <<>>
    /\ KeyOf(last) \in DOMAIN vector_stores
    /\ Len(vector_stores[KeyOf(last)].chunks) = 2
    /\ disk[KeyOf(last)].pkl.st = "ok"
    /\ disk[KeyOf(last)].pkl.chunks = vector_stores[KeyOf(last)].chunks

\* C28: a search on an instance that has a cache entry for the key answers
\* from that entry and leaves it as it is, and index_project and
\* clear_project on a second instance over the same directory leave the
\* entry as it is: the searches of the first instance return what its entry
\* gives whatever the second instance has persisted or removed since.
C28_CacheNeverRefreshed ==
    [][/\ (/\ last'.op = "search_project"
            /\ KeyOf(last') \in DOMAIN vector_stores) =>
               /\ vector_stores' = vector_stores
               /\ last'.outcome = "ok"
               /\ last'.results
                      \in SearchOutcomes(vector_stores[KeyOf(last')],
                                         last'.query, last'.k)
       /\ last'.op \in {"other_index_project", "other_clear_project"} =>
               vector_stores' = vector_stores]_vars

\* the first instance answers with its two cached chunks after the second
\* instance has removed the persisted index and indexed another file
C28_Witness ==
    /\ last.op = "search_project"
    /\ Len(last.results) = 2
    /\ KeyOf(last) \in DOMAIN vector_stores
    /\ KeyOf(last) \in DOMAIN other_stores
    /\ disk[KeyOf(last)].pkl.st = "ok"
    /\ Len(disk[KeyOf(last)].pkl.chunks) = 1
    /\ other_stores[KeyOf(last)].chunks = disk[KeyOf(last)].pkl.chunks
    /\ vector_stores[KeyOf(last)].chunks # disk[KeyOf(last)].pkl.chunks

\* the call was made on a key with no cache entry and no artifact
NeverIndexed(l) ==
    /\ ~l.before.cached
    /\ l.before.faiss = "absent"
    /\ l.before.pkl = "absent"

\* the index_project call l made no chunk and returned
IndexedNothing(l) ==
    /\ l.op = "index_project"
    /\ l.outcome = "ok"
    /\ l.chunks = <<>>

\* C29: index_project that makes no chunk on a never-indexed key returns 0,
\* writes both artifacts and caches an empty index; a summary asked for right
\* after it has total_chunks = 0 and no error, and a search right after it
\* returns the empty list.
C29_ZeroChunkIndex ==
    [][/\ (IndexedNothing(last') /\ NeverIndexed(last')) =>
              LET key == KeyOf(last')
              IN  /\ last'.count = 0
                  /\ disk'[key].faiss = [st |-> "ok", index |-> <<>>]
                  /\ disk'[key].pkl.st = "ok"
                  /\ disk'[key].pkl.chunks = <<>>
                  /\ key \in DOMAIN vector_stores'
                  /\ vector_stores'[key].chunks = <<>>
                  /\ vector_stores'[key].index = <<>>
       /\ (/\ IndexedNothing(last) /\ NeverIndexed(last)
           /\ last'.op = "generate_project_summary") =>
              /\ last'.summary.error = ""
              /\ last'.summary.total_chunks = 0
       /\ (/\ IndexedNothing(last) /\ NeverIndexed(last)
           /\ last'.op = "search_project") =>
              /\ last'.outcome = "ok"
              /\ last'.results = <<>>]_vars

\* a summary without error and with total_chunks = 0, made from the cached
\* empty index next to the two artifacts of an empty store
C29_Witness ==
    /\ last.op = "generate_project_summary"
    /\ last.summary.error = ""
    /\ last.summary.total_chunks = 0
    /\ KeyOf(last) \in DOMAIN vector_stores
    /\ vector_stores[KeyOf(last)].index = <<>>
    /\ disk[KeyOf(last)].faiss = [st |-> "ok", index |-> <<>>]
    /\ disk[KeyOf(last)].pkl.st = "ok"
    /\ disk[KeyOf(last)].pkl.chunks = <<>>

\* C30: reset_session_for_new_chat leaves every persisted artifact as it
\* is, empties the indexes of the session's ProjectRAG and drops the
\* instance; a new ProjectRAG over the same directory then loads the chunks
\* that were persisted before the reset, and indexing the same (user, chat)
\* key after the reset appends to them.
C30_ResetKeepsArtifacts ==
    [][/\ last'.op = "reset_session_for_new_chat" =>
              /\ disk' = disk
              /\ DOMAIN vector_stores' = {}
              /\ ~session'.project_rag
              /\ \A key \in DOMAIN disk :
                     Exists(disk[key].faiss) =>
                         LET sl == SearchLoad([k \in {} |-> NewVectorStore],
                                              key, disk'[key])
                         IN  /\ sl.hit
                             /\ sl.stores[key].chunks = disk[key].pkl.chunks
       /\ (/\ last.op = "reset_session_for_new_chat"
           /\ last'.op = "initialize_rag_system") =>
              LET key == KeyOf(last')
                  expected == Bare(PersistedChunks(disk[key])) \o Bare(last'.chunks)
              IN  /\ Bare(PersistedChunks(disk'[key])) = expected
                  /\ Bare(vector_stores'[key].chunks) = expected]_vars

\* after a reset a new instance has indexed one more chunk under a key that
\* had a persisted chunk, and holds both
C30_Witness ==
    /\ last.op = "initialize_rag_system"
    /\ ~last.before.cached
    /\ last.before.pkl = "ok"
    /\ Len(last.chunks) = 1
    /\ session.project_rag
    /\ Len(vector_stores[KeyOf(last)].chunks) = 2
    /\ disk[KeyOf(last)].pkl.chunks = vector_stores[KeyOf(last)].chunks

====
